---- MODULE Spec2Model ----
(***************************************************************************)
(* State-machine model of the Seraj marketplace backend (express routes    *)
(* over mongoose models).  One action is one HTTP request: the middleware  *)
(* chain of the route followed by its handler, with every document save    *)
(* the handler performs.  `req' and `res' hold the last request and the    *)
(* response it got; res.ran tells whether the route handler body ran.      *)
(***************************************************************************)
EXTENDS Integers, Sequences, FiniteSets, TLC

\* ------------------------------------------------------------------ bounds
NumUsers == 3
MaxSessions == 1
MaxListings == 1
MaxNotifications == 1
MaxDay == 1
MaxStored == 2
MaxConversations == 2
MaxMessages == 1
MaxCategories == 3
MaxRegistered == 1
NumConnections == 2
MaxRequests == 3

\* --------------------------------------------------------------- variables
VARIABLES
    userExists,        \* User collection: which ids have a document
    role,              \* User.role
    isEmailVerified,   \* User.isEmailVerified
    password,          \* User.password (bcrypt hash)
    sessions,          \* User.sessions
    followers,         \* User.followers
    following,         \* User.following
    notificationSettings, \* User.notificationSettings
    ratings,           \* User.ratings
    averageRating,     \* User.averageRating, in tenths
    totalRatings,      \* User.totalRatings
    listings,          \* Listing collection, in order of creation
    notifications,     \* Notification collection, in order of insertion
    now,               \* the clock, in days
    conversations,     \* Conversation collection, in order of creation
    messages,          \* Message collection, in order of creation
    categories,        \* Category collection, in order of creation
    registered,        \* User documents POST /register created, in order of creation
    profile,           \* the profile fields of the seeded User documents
    outbox,            \* e-mails handed to the mail transport, in order
    flight,            \* the follow and unfollow requests being served, per connection
    docVersion,        \* User.__v
    started,           \* how many follow and unfollow requests reached their saves
    req,               \* the last request
    res                \* the response to it

userVars == <<userExists, role, isEmailVerified, password, sessions>>
followVars == <<followers, following>>
ratingVars == <<ratings, averageRating, totalRatings>>
socialVars == <<followers, following, notificationSettings, ratings, averageRating, totalRatings>>
dataVars == <<socialVars, listings, notifications, now>>
chatVars == <<conversations, messages>>
\* what the conversation routes leave alone, and the category routes
accountVars == <<registered, profile, outbox>>
flightVars == <<flight, docVersion, started>>
notChat == <<categories, accountVars, flightVars>>
notCategories == <<chatVars, accountVars, flightVars>>
notAccounts == <<chatVars, categories, flightVars>>
notFlight == <<chatVars, categories, accountVars>>
moreVars == <<chatVars, categories, accountVars, flightVars>>
vars == <<userVars, dataVars, moreVars, req, res>>

\* ------------------------------------------------------------------- users
UserIds == 1..NumUsers
\* An id no User document has (the account was removed from the database).
MissingUser == NumUsers + 1
AllIds == UserIds \cup {MissingUser}
NoUser == 0
Roles == {"user", "admin", "moderator"}

Digits == <<"0", "1", "2", "3", "4", "5", "6", "7", "8", "9">>
Digit(n) == Digits[n + 1]

\* The address and the password user u registered with.
EmailOf(u) == <<"u", Digit(u), "@", "x", ".", "s", "y">>
PasswordOf(u) == <<"p", "w", Digit(u)>>

\* bcrypt: the stored value is a salted hash, never the clear text.
BcryptHash(p) == <<"$2a$">> \o p
BcryptCompare(candidate, hash) == hash = BcryptHash(candidate)

\* User.findOne({ email })
FindByEmail(e) == {u \in AllIds : userExists[u] /\ EmailOf(u) = e}

\* ------------------------------------------------------------------ tokens
\* A token is what jwt.sign made: the key it was signed with and its payload
\* { user: { id, role } }.  Register and refresh-token sign a payload without
\* a role ("none").  A string that is no JWT at all has key "malformed".
JWT_SECRET == "JWT_SECRET"
JWT_REFRESH_SECRET == "JWT_REFRESH_SECRET"
JwtSign(uid, r, key) == [key |-> key, uid |-> uid, role |-> r]
MalformedToken == [key |-> "malformed", uid |-> NoUser, role |-> "none"]
EmptyToken == [key |-> "empty", uid |-> NoUser, role |-> "none"]

\* POST /register answers with a token signed over { user: { id } }.
RegisterToken(u) == JwtSign(u, "none", JWT_SECRET)
\* POST /refresh-token signs its refresh token with the other secret.
RefreshToken(u) == JwtSign(u, "none", JWT_REFRESH_SECRET)

\* The tokens POST /login has handed out and that sit in User.sessions.
IssuedTokens == UNION {{sessions[u][i].token : i \in DOMAIN sessions[u]} : u \in UserIds}

\* The Authorization header: absent, or a scheme prefix followed by a token.
NoHeader == [present |-> FALSE, scheme |-> "", tok |-> EmptyToken]
Bearer(t) == [present |-> TRUE, scheme |-> "Bearer ", tok |-> t]

\* req.header('Authorization')?.replace('Bearer ', ''): the string handed to
\* jwt.verify is the header with the first 'Bearer ' removed.
StripBearer(hdr) ==
    [prefix |-> IF hdr.scheme = "Bearer " THEN "" ELSE hdr.scheme, tok |-> hdr.tok]

\* jwt.verify(token, key): throws unless the string is a JWT signed with key.
JwtVerify(str, key) == str.prefix = "" /\ str.tok.key = key

\* ---------------------------------------------------------- auth middleware
\* req.user: the User document protectRoute loaded (the fields the routes read).
NoDoc == [id |-> NoUser, role |-> "none"]
UserDoc(u) == [id |-> u, role |-> role[u]]

\* A protectRoute that trusts the role written in the token payload.
ProtectRouteTokenRole(hdr) ==
    LET token == [prefix |-> IF hdr.scheme = "Bearer " THEN "" ELSE hdr.scheme, tok |-> hdr.tok] IN
    IF ~hdr.present \/ (token.prefix = "" /\ token.tok.key = "empty")
    THEN [status |-> 401, user |-> NoDoc]
    ELSE IF ~(token.prefix = "" /\ token.tok.key = "JWT_SECRET")
    THEN [status |-> 401, user |-> NoDoc]
    ELSE IF ~userExists[token.tok.uid]
    THEN [status |-> 404, user |-> NoDoc]
    ELSE [status |-> 0, user |-> [id |-> token.tok.uid, role |-> token.tok.role]]

\* A protectRoute that verifies the token and never looks the user up.
ProtectRouteNoLookup(hdr) ==
    LET token == [prefix |-> IF hdr.scheme = "Bearer " THEN "" ELSE hdr.scheme, tok |-> hdr.tok] IN
    IF ~hdr.present \/ (token.prefix = "" /\ token.tok.key = "empty")
    THEN [status |-> 401, user |-> NoDoc]
    ELSE IF ~(token.prefix = "" /\ token.tok.key = "JWT_SECRET")
    THEN [status |-> 401, user |-> NoDoc]
    ELSE [status |-> 0, user |-> [id |-> token.tok.uid, role |-> role[token.tok.uid]]]

\* protectRoute: status 0 stands for next() having been called with req.user
\* set to the loaded user.  Its write of user.lastActive is not carried: no
\* route of the model reads that field.
ProtectRoute(hdr) ==
    LET token == StripBearer(hdr) IN
    IF ~hdr.present \/ (token.prefix = "" /\ token.tok = EmptyToken)
    THEN [status |-> 401, user |-> NoDoc]
    ELSE IF ~JwtVerify(token, JWT_SECRET)
    THEN [status |-> 401, user |-> NoDoc]
    ELSE IF ~userExists[token.tok.uid]
    THEN [status |-> 404, user |-> NoDoc]
    ELSE [status |-> 0, user |-> UserDoc(token.tok.uid)]

\* A role check that lets every authenticated user through.
checkAuthenticated(roles, reqUser) == IF reqUser = NoDoc THEN 401 ELSE 0

\* checkRole(roles): reads the role of the document protectRoute loaded.
CheckRole(roles, reqUser) ==
    IF reqUser = NoDoc THEN 401
    ELSE IF reqUser.role \notin roles THEN 403
    ELSE 0

\* The response of a request the middleware chain stopped.
Rejected(status) ==
    [status |-> status, ran |-> FALSE, user |-> NoUser, body |-> <<>>, logged |-> FALSE]
\* The response a handler sent.
Handled(status, user, body) ==
    [status |-> status, ran |-> TRUE, user |-> user, body |-> body, logged |-> FALSE]
\* The same, with res.logged telling whether console.error was called while
\* the request was served.
HandledLogging(status, user, body, logged) ==
    [status |-> status, ran |-> TRUE, user |-> user, body |-> body, logged |-> logged]

\* Before the first request.
NoRequest == [route |-> "none", hdr |-> NoHeader, body |-> <<>>]
NoResponse == [status |-> 0, ran |-> FALSE, user |-> NoUser, body |-> <<>>, logged |-> FALSE]

\* --------------------------------------------------------- validation.js
WhiteSpace == {" "}
NotWsAt(s, from, to) == \A k \in from..to : s[k] \notin WhiteSpace \cup {"@"}

\* /^[^\s@]+@[^\s@]+\.[^\s@]+$/
MatchesLoginEmail(s) ==
    \E i \in 2..Len(s) : \E j \in (i + 2)..(Len(s) - 1) :
        /\ s[i] = "@"
        /\ s[j] = "."
        /\ NotWsAt(s, 1, i - 1)
        /\ NotWsAt(s, i + 1, j - 1)
        /\ NotWsAt(s, j + 1, Len(s))

\* validateLogin: TRUE when next() is called.
ValidateLogin(body) ==
    /\ body.email # <<>>
    /\ MatchesLoginEmail(body.email)
    /\ body.password # <<>>

\* ------------------------------------------------------------- User methods
\* createSession: push { deviceInfo, token, lastActive, isActive: true }.
createSession(ss, token) == Append(ss, [token |-> token, isActive |-> TRUE])

\* cleanOldSessions: keeps a session that is active or was active in the
\* last thirty days; a session just pushed is both.
cleanOldSessions(ss) == SelectSeq(ss, LAMBDA s : s.isActive)

RECURSIVE SumOver(_, _)
SumOver(S, f) ==
    IF S = {} THEN 0
    ELSE LET x == CHOOSE y \in S : TRUE IN f[x] + SumOver(S \ {x}, f)

TotalSessions == SumOver(UserIds, [u \in UserIds |-> Len(sessions[u])])

\* ------------------------------------------------------------ auth routes
LoginRoute == "POST /api/auth/login"

\* A login handler that lets an unverified address in.
LoginChecksNoVerified(body) ==
    LET found == FindByEmail(body.email) IN
    IF found = {} THEN [status |-> 400, user |-> NoUser]
    ELSE LET u == CHOOSE x \in found : TRUE IN
         IF ~BcryptCompare(body.password, password[u]) THEN [status |-> 400, user |-> NoUser]
         ELSE [status |-> 200, user |-> u]

\* The checks of the login handler, in order: the user the address names,
\* the password against the stored hash, the verified flag.
LoginChecks(body) ==
    LET found == FindByEmail(body.email) IN
    IF found = {} THEN [status |-> 400, user |-> NoUser]
    ELSE LET u == CHOOSE x \in found : TRUE IN
         IF ~BcryptCompare(body.password, password[u]) THEN [status |-> 400, user |-> NoUser]
         ELSE IF ~isEmailVerified[u] THEN [status |-> 400, user |-> NoUser]
         ELSE [status |-> 200, user |-> u]

\* POST /api/auth/login: validateLogin, then the handler.
Login(body) ==
    /\ UNCHANGED dataVars
    /\ UNCHANGED moreVars
    /\ req' = [route |-> LoginRoute, hdr |-> NoHeader, body |-> body]
    /\ IF ~ValidateLogin(body)
       THEN /\ res' = Rejected(400)
            /\ UNCHANGED userVars
       ELSE LET checks == LoginChecks(body)
                u == checks.user
                token == JwtSign(u, role[u], JWT_SECRET) IN
            IF checks.status # 200
            THEN /\ res' = Handled(checks.status, NoUser, <<>>)
                 /\ UNCHANGED userVars
            ELSE /\ sessions' = [sessions EXCEPT
                                   ![u] = cleanOldSessions(createSession(sessions[u], token))]
                 /\ res' = Handled(200, NoUser, <<token>>)
                 /\ UNCHANGED <<userExists, role, isEmailVerified, password>>

\* POST /api/auth/verify-email.  The lookup filters on the address, the code
\* and its expiry; codeAccepted is the database's answer for the last two.
VerifyEmail(e, codeAccepted) ==
    /\ UNCHANGED dataVars
    /\ UNCHANGED moreVars
    /\ req' = [route |-> "POST /api/auth/verify-email", hdr |-> NoHeader, body |-> e]
    /\ LET found == FindByEmail(e) IN
       IF found = {} \/ ~codeAccepted
       THEN /\ res' = Handled(400, NoUser, <<>>)
            /\ UNCHANGED userVars
       ELSE LET u == CHOOSE x \in found : TRUE IN
            /\ isEmailVerified' = [isEmailVerified EXCEPT ![u] = TRUE]
            /\ res' = Handled(200, NoUser, <<>>)
            /\ UNCHANGED <<userExists, role, password, sessions>>

\* GET /api/auth/me: protectRoute, then the handler.
GetMe(hdr) ==
    LET auth == ProtectRoute(hdr) IN
    /\ UNCHANGED moreVars
    /\ req' = [route |-> "GET /api/auth/me", hdr |-> hdr, body |-> <<>>]
    /\ res' = IF auth.status # 0 THEN Rejected(auth.status)
              ELSE Handled(200, auth.user.id, <<>>)
    /\ UNCHANGED dataVars
    /\ UNCHANGED userVars

\* GET /api/users: protectRoute, checkRole(['admin']), then the handler.
ListUsers(hdr) ==
    LET auth == ProtectRoute(hdr)
        gate == CheckRole({"admin"}, auth.user) IN
    /\ UNCHANGED moreVars
    /\ req' = [route |-> "GET /api/users", hdr |-> hdr, body |-> <<>>]
    /\ res' = IF auth.status # 0 THEN Rejected(auth.status)
              ELSE IF gate # 0 THEN Rejected(gate)
              ELSE Handled(200, auth.user.id, <<>>)
    /\ UNCHANGED dataVars
    /\ UNCHANGED userVars

\* PATCH /api/users/:id/role: protectRoute, checkRole(['admin']), handler.
PatchRole(hdr, id, newRole) ==
    LET auth == ProtectRoute(hdr)
        gate == CheckRole({"admin"}, auth.user) IN
    /\ UNCHANGED dataVars
    /\ UNCHANGED moreVars
    /\ req' = [route |-> "PATCH /api/users/:id/role", hdr |-> hdr, body |-> <<id, newRole>>]
    /\ IF auth.status # 0
       THEN res' = Rejected(auth.status) /\ UNCHANGED userVars
       ELSE IF gate # 0
       THEN res' = Rejected(gate) /\ UNCHANGED userVars
       ELSE IF newRole \notin Roles
       THEN res' = Handled(400, auth.user.id, <<>>) /\ UNCHANGED userVars
       ELSE IF ~userExists[id]
       THEN res' = Handled(404, auth.user.id, <<>>) /\ UNCHANGED userVars
       ELSE /\ role' = [role EXCEPT ![id] = newRole]
            /\ res' = Handled(200, auth.user.id, <<newRole>>)
            /\ UNCHANGED <<userExists, isEmailVerified, password, sessions>>

\* ---------------------------------------------------------------- sequences
Range(s) == {s[i] : i \in DOMAIN s}
\* MongooseArray.indexOf, counted from 1; 0 when x is not in the array.
IndexOf(s, x) == IF x \in Range(s) THEN CHOOSE i \in DOMAIN s : s[i] = x /\ \A j \in 1..(i - 1) : s[j] # x
                 ELSE 0
\* Array.splice(index, 1)
RemoveAt(s, i) == SubSeq(s, 1, i - 1) \o SubSeq(s, i + 1, Len(s))
\* The bearer of the token user u got at registration.
TokenOf(u) == Bearer(RegisterToken(u))

\* ------------------------------------------------------------ follow routes
\* POST /api/follow/:userId: protectRoute, then the handler.
Follow(hdr, userId) ==
    LET auth == ProtectRoute(hdr)
        me == auth.user.id IN
    /\ UNCHANGED moreVars
    /\ req' = [route |-> "POST /api/follow/:userId", hdr |-> hdr, body |-> <<userId>>]
    /\ UNCHANGED <<userVars, notificationSettings, ratingVars, listings, now>>
    /\ IF auth.status # 0
       THEN res' = Rejected(auth.status) /\ UNCHANGED <<followVars, notifications>>
       ELSE IF ~userExists[userId]
       THEN res' = Handled(404, me, <<>>) /\ UNCHANGED <<followVars, notifications>>
       ELSE IF me = userId \/ userId \in Range(following[me])
       THEN res' = Handled(400, me, <<>>) /\ UNCHANGED <<followVars, notifications>>
       ELSE /\ following' = [following EXCEPT ![me] = Append(@, userId)]
            /\ followers' = [followers EXCEPT ![userId] = Append(@, me)]
            /\ notifications' = Append(notifications,
                   [recipient |-> userId, sender |-> me, type |-> "FOLLOW", listing |-> 0])
            /\ res' = Handled(200, me, <<>>)

\* DELETE /api/follow/:userId: protectRoute, then the handler.
Unfollow(hdr, userId) ==
    LET auth == ProtectRoute(hdr)
        me == auth.user.id IN
    /\ UNCHANGED moreVars
    /\ req' = [route |-> "DELETE /api/follow/:userId", hdr |-> hdr, body |-> <<userId>>]
    /\ UNCHANGED <<userVars, notificationSettings, ratingVars, listings, notifications, now>>
    /\ IF auth.status # 0
       THEN res' = Rejected(auth.status) /\ UNCHANGED followVars
       ELSE IF ~userExists[userId]
       THEN res' = Handled(404, me, <<>>) /\ UNCHANGED followVars
       ELSE IF userId \notin Range(following[me])
       THEN res' = Handled(400, me, <<>>) /\ UNCHANGED followVars
       ELSE /\ following' = [following EXCEPT ![me] = SelectSeq(@, LAMBDA id : id # userId)]
            /\ followers' = [followers EXCEPT ![userId] = SelectSeq(@, LAMBDA id : id # me)]
            /\ res' = Handled(200, me, <<>>)

\* PUT /api/notifications/settings: protectRoute, then the handler.  The body
\* carries both flags, so the merge with the stored settings yields the body.
PutSettings(hdr, settings) ==
    LET auth == ProtectRoute(hdr)
        me == auth.user.id IN
    /\ UNCHANGED moreVars
    /\ req' = [route |-> "PUT /api/notifications/settings", hdr |-> hdr, body |-> <<settings>>]
    /\ UNCHANGED <<userVars, followVars, ratingVars, listings, notifications, now>>
    /\ IF auth.status # 0
       THEN res' = Rejected(auth.status) /\ UNCHANGED notificationSettings
       ELSE /\ notificationSettings' = [notificationSettings EXCEPT ![me] = settings]
            /\ res' = Handled(200, me, <<settings>>)

\* ----------------------------------------------------- notificationService
\* .populate('followers'): the follower ids that still have a document.
PopulateFollowers(userId) == SelectSeq(followers[userId], LAMBDA f : userExists[f])

Notify(recipient, sender, type, listing) ==
    [recipient |-> recipient, sender |-> sender, type |-> type, listing |-> listing]

RECURSIVE MapNotify(_, _, _, _)
MapNotify(fs, sender, type, listing) ==
    IF fs = <<>> THEN <<>>
    ELSE <<Notify(Head(fs), sender, type, listing)>> \o MapNotify(Tail(fs), sender, type, listing)

\* A fan-out that notifies every follower, whatever the follower's settings.
notifyEveryFollower(userId, listing) ==
    MapNotify(SelectSeq(followers[userId], LAMBDA f : userExists[f]), userId, "NEW_LISTING", listing)

\* notifyFollowersNewListing: the documents it hands to insertMany.
notifyFollowersNewListing(userId, listing) ==
    MapNotify(SelectSeq(PopulateFollowers(userId),
                        LAMBDA f : notificationSettings[f].newListings),
              userId, "NEW_LISTING", listing)

\* notifyFollowersListingUpdate: the documents it hands to insertMany.
notifyFollowersListingUpdate(userId, listing) ==
    MapNotify(SelectSeq(PopulateFollowers(userId),
                        LAMBDA f : notificationSettings[f].listingUpdates),
              userId, "LISTING_UPDATE", listing)

\* A fan-out without the try/catch: a failure reaches the route handler.
FanOutUncaught(batch) ==
    {[inserted |-> batch, logged |-> FALSE, thrown |-> FALSE],
     [inserted |-> <<>>, logged |-> FALSE, thrown |-> TRUE]}
        \cup {[inserted |-> SubSeq(batch, 1, k), logged |-> FALSE, thrown |-> TRUE] :
                 k \in 0..(Len(batch) - 1)}

\* The ways the body of a notify function ends.  Its database calls succeed
\* and the batch is inserted; or the follower lookup throws and nothing is
\* inserted; or insertMany throws after it inserted the documents before the
\* failing one.  The catch block logs the error and the function returns, so
\* nothing is thrown to the caller.
FanOut(batch) ==
    {[inserted |-> batch, logged |-> FALSE, thrown |-> FALSE],
     [inserted |-> <<>>, logged |-> TRUE, thrown |-> FALSE]}
        \cup {[inserted |-> SubSeq(batch, 1, k), logged |-> TRUE, thrown |-> FALSE] :
                 k \in 0..(Len(batch) - 1)}

\* DELETE /api/notifications/:id: protectRoute, then the handler.  The id
\* names the i-th document of the collection.
DeleteNotification(hdr, i) ==
    LET auth == ProtectRoute(hdr)
        me == auth.user.id IN
    /\ UNCHANGED moreVars
    /\ req' = [route |-> "DELETE /api/notifications/:id", hdr |-> hdr, body |-> <<i>>]
    /\ UNCHANGED <<userVars, socialVars, listings, now>>
    /\ IF auth.status # 0
       THEN res' = Rejected(auth.status) /\ UNCHANGED notifications
       ELSE IF i \notin DOMAIN notifications \/ notifications[i].recipient # me
       THEN res' = Handled(404, me, <<>>) /\ UNCHANGED notifications
       ELSE /\ notifications' = RemoveAt(notifications, i)
            /\ res' = Handled(200, me, <<>>)

\* ------------------------------------------------------------ Listing model
\* A field the request body does not carry is the empty sequence (for a
\* number or a boolean) or the empty string.
Absent == <<>>
NoDate == 0 - 1
ListingStatuses == {"active", "sold", "received", "inactive", "draft"}

\* new Listing(data): status defaults to 'active', isFeatured to false,
\* favorites to [].
NewListing(user, status, city, price) ==
    [user |-> user, status |-> IF status = "" THEN "active" ELSE status, city |-> city,
     price |-> price, isFeatured |-> FALSE, featuredUntil |-> NoDate, favorites |-> <<>>]

\* !price || price < 0
BadPrice(price) == price = Absent \/ price[1] = 0 \/ price[1] < 0

CreateRoute == "POST /api/listings"
UpdateRoute == "PUT /api/listings/:id"

\* POST /api/listings: protectRoute, the rate limiter (a thousand requests a
\* day, not reached here), validateListing, then the handler.  body.complete
\* says that title, description, category, location and images are all there
\* and pass the schema; the image upload succeeds.
CreateListing(hdr, body) ==
    LET auth == ProtectRoute(hdr)
        me == auth.user.id
        free == body.priceType \in {"free", "contact"}
        id == Len(listings) + 1
        doc == NewListing(me, body.status, body.city, IF free THEN 0 ELSE body.price[1]) IN
    /\ UNCHANGED moreVars
    /\ req' = [route |-> CreateRoute, hdr |-> hdr, body |-> body]
    /\ UNCHANGED <<userVars, socialVars, now>>
    /\ IF auth.status # 0
       THEN res' = Rejected(auth.status) /\ UNCHANGED <<listings, notifications>>
       ELSE IF body.price # Absent /\ body.price[1] < 0
       THEN res' = Rejected(400) /\ UNCHANGED <<listings, notifications>>
       ELSE IF \/ body.status \notin {"", "active", "draft"}
               \/ ~body.complete
               \/ (~free /\ BadPrice(body.price))
       THEN res' = Handled(400, me, <<>>) /\ UNCHANGED <<listings, notifications>>
       ELSE \E out \in FanOut(notifyFollowersNewListing(me, id)) :
               /\ listings' = Append(listings, doc)
               /\ notifications' = notifications \o out.inserted
               /\ res' = IF out.thrown THEN HandledLogging(500, me, <<>>, TRUE)
                         ELSE HandledLogging(201, me, <<id>>, out.logged)

\* findByIdAndUpdate(id, { $set: { ...req.body, price } }): the fields of the
\* body that the model follows.
SetFields(doc, body, price) ==
    [doc EXCEPT !.price = price,
                !.status = IF body.status = "" THEN @ ELSE body.status,
                !.isFeatured = IF body.isFeatured = Absent THEN @ ELSE body.isFeatured[1]]

\* PUT /api/listings/:id: protectRoute, then the handler.
UpdateListing(hdr, id, body) ==
    LET auth == ProtectRoute(hdr)
        me == auth.user.id
        free == body.priceType \in {"free", "contact"} IN
    /\ UNCHANGED moreVars
    /\ req' = [route |-> UpdateRoute, hdr |-> hdr, body |-> <<id, body>>]
    /\ UNCHANGED <<userVars, socialVars, now>>
    /\ IF auth.status # 0
       THEN res' = Rejected(auth.status) /\ UNCHANGED <<listings, notifications>>
       ELSE IF id \notin DOMAIN listings
       THEN res' = Handled(404, me, <<>>) /\ UNCHANGED <<listings, notifications>>
       ELSE IF listings[id].user # me
       THEN res' = Handled(403, me, <<>>) /\ UNCHANGED <<listings, notifications>>
       ELSE IF ~free /\ BadPrice(body.price)
       THEN res' = Handled(400, me, <<>>) /\ UNCHANGED <<listings, notifications>>
       ELSE \E out \in FanOut(notifyFollowersListingUpdate(me, id)) :
               /\ listings' = [listings EXCEPT
                                 ![id] = SetFields(@, body, IF free THEN 0 ELSE body.price[1])]
               /\ notifications' = notifications \o out.inserted
               /\ res' = IF out.thrown THEN HandledLogging(500, me, <<>>, TRUE)
                         ELSE HandledLogging(200, me, <<id>>, out.logged)

\* ------------------------------------------------------------ user ratings
\* A rating value and an average are carried in hundredths of a star, so
\* 4.25 stars is 425 and an average of 4.3 is 430.
RECURSIVE SumRatings(_)
SumRatings(rs) == IF rs = <<>> THEN 0 ELSE Head(rs).rating + SumRatings(Tail(rs))

\* An average that drops the digits after the first decimal.
averageTruncated(rs) ==
    IF Len(rs) = 0 THEN [averageRating |-> 0, totalRatings |-> 0]
    ELSE [averageRating |-> 10 * (SumRatings(rs) \div (10 * Len(rs))), totalRatings |-> Len(rs)]

\* calculateAverageRating: parseFloat((sum / length).toFixed(1)).  toFixed
\* picks the nearest tenth and, of two equally near, the larger one.
calculateAverageRating(rs) ==
    IF Len(rs) = 0 THEN [averageRating |-> 0, totalRatings |-> 0]
    ELSE [averageRating |-> 10 * ((2 * SumRatings(rs) + 10 * Len(rs)) \div (20 * Len(rs))),
          totalRatings |-> Len(rs)]

\* user.ratings.findIndex(r => r.rater.toString() === req.user.id), from 1;
\* 0 when the rater has no entry.
FindRater(rs, rater) ==
    IF \E i \in DOMAIN rs : rs[i].rater = rater
    THEN CHOOSE i \in DOMAIN rs : rs[i].rater = rater /\ \A j \in 1..(i - 1) : rs[j].rater # rater
    ELSE 0

RateRoute == "POST /api/users/:id/rate"

\* POST /api/users/:id/rate: protectRoute, then the handler; user.save() runs
\* the pre-save hook, which recomputes the average when ratings was modified.
RateUser(hdr, id, body) ==
    LET auth == ProtectRoute(hdr)
        me == auth.user.id
        at == FindRater(ratings[id], me)
        rs == IF at # 0 THEN [ratings[id] EXCEPT ![at].rating = body.rating]
              ELSE Append(ratings[id], [rater |-> me, rating |-> body.rating])
        calc == calculateAverageRating(rs) IN
    /\ UNCHANGED moreVars
    /\ req' = [route |-> RateRoute, hdr |-> hdr, body |-> <<id, body>>]
    /\ UNCHANGED <<userVars, followVars, notificationSettings, listings, notifications, now>>
    /\ IF auth.status # 0
       THEN res' = Rejected(auth.status) /\ UNCHANGED ratingVars
       ELSE IF body.rating = 0 \/ body.rating < 100 \/ body.rating > 500
       THEN res' = Handled(400, me, <<>>) /\ UNCHANGED ratingVars
       ELSE IF body.longComment
       THEN res' = Handled(400, me, <<>>) /\ UNCHANGED ratingVars
       ELSE IF id = me
       THEN res' = Handled(400, me, <<>>) /\ UNCHANGED ratingVars
       ELSE IF ~userExists[id]
       THEN res' = Handled(404, me, <<>>) /\ UNCHANGED ratingVars
       ELSE /\ ratings' = [ratings EXCEPT ![id] = rs]
            /\ averageRating' = [averageRating EXCEPT ![id] = calc.averageRating]
            /\ totalRatings' = [totalRatings EXCEPT ![id] = calc.totalRatings]
            /\ res' = Handled(200, me, <<calc.averageRating, calc.totalRatings>>)

\* --------------------------------------------------------------- favorites
\* A toggle that pushes without looking.
togglePush(favorites, userId) == Append(favorites, userId)

\* Listing.toggleFavorite(userId): the favorites it saves.
toggleFavorite(favorites, userId) ==
    LET index == IndexOf(favorites, userId) IN
    IF index = 0 THEN Append(favorites, userId)
    ELSE RemoveAt(favorites, index)

ToggleCall == "listing.toggleFavorite(userId)"

\* A call of listing.toggleFavorite(userId) on the listing with this id (no
\* route makes it: the caller is whoever holds the document).
ToggleFavorite(id, userId) ==
    /\ id \in DOMAIN listings
    /\ UNCHANGED moreVars
    /\ req' = [route |-> ToggleCall, hdr |-> NoHeader, body |-> <<id, userId>>]
    /\ res' = NoResponse
    /\ listings' = [listings EXCEPT ![id].favorites = toggleFavorite(@, userId)]
    /\ UNCHANGED <<userVars, socialVars, notifications, now>>

\* POST /api/listings/:id/favorite: protectRoute, then the handler.
AddFavorite(hdr, id) ==
    LET auth == ProtectRoute(hdr)
        me == auth.user.id IN
    /\ UNCHANGED moreVars
    /\ req' = [route |-> "POST /api/listings/:id/favorite", hdr |-> hdr, body |-> <<id>>]
    /\ UNCHANGED <<userVars, socialVars, notifications, now>>
    /\ IF auth.status # 0
       THEN res' = Rejected(auth.status) /\ UNCHANGED listings
       ELSE IF id \notin DOMAIN listings
       THEN res' = Handled(404, me, <<>>) /\ UNCHANGED listings
       ELSE IF listings[id].status = "draft" /\ listings[id].user # me
       THEN res' = Handled(403, me, <<>>) /\ UNCHANGED listings
       ELSE IF me \in Range(listings[id].favorites)
       THEN res' = Handled(400, me, <<>>) /\ UNCHANGED listings
       ELSE /\ listings' = [listings EXCEPT ![id].favorites = Append(@, me)]
            /\ res' = Handled(200, me, <<Len(listings'[id].favorites)>>)

\* DELETE /api/listings/:id/favorite: protectRoute, then the handler.
RemoveFavorite(hdr, id) ==
    LET auth == ProtectRoute(hdr)
        me == auth.user.id IN
    /\ UNCHANGED moreVars
    /\ req' = [route |-> "DELETE /api/listings/:id/favorite", hdr |-> hdr, body |-> <<id>>]
    /\ UNCHANGED <<userVars, socialVars, notifications, now>>
    /\ IF auth.status # 0
       THEN res' = Rejected(auth.status) /\ UNCHANGED listings
       ELSE IF id \notin DOMAIN listings
       THEN res' = Handled(404, me, <<>>) /\ UNCHANGED listings
       ELSE /\ listings' = [listings EXCEPT
                              ![id].favorites = SelectSeq(@, LAMBDA userId : userId # me)]
            /\ res' = Handled(200, me, <<Len(listings'[id].favorites)>>)

\* ----------------------------------------------------------- featuring
DefaultDuration == 7
FeatureRoute == "POST /api/listings/:id/feature"

\* req.body.durationInDays || 7
DurationOf(durationInDays) ==
    IF durationInDays = Absent \/ durationInDays[1] = 0 THEN DefaultDuration
    ELSE durationInDays[1]

\* listing.makeFeatured(durationInDays): the document it saves.
makeFeatured(doc, durationInDays) ==
    [doc EXCEPT !.isFeatured = TRUE, !.featuredUntil = now + durationInDays]

\* listing.removeFeatured(): the document it saves.
removeFeatured(doc) == [doc EXCEPT !.isFeatured = FALSE, !.featuredUntil = NoDate]

\* POST /api/listings/:id/feature: protectRoute, checkRole(['admin']), then
\* the handler.
FeatureListing(hdr, id, durationInDays) ==
    LET auth == ProtectRoute(hdr)
        gate == CheckRole({"admin"}, auth.user)
        me == auth.user.id IN
    /\ UNCHANGED moreVars
    /\ req' = [route |-> FeatureRoute, hdr |-> hdr, body |-> <<id, durationInDays>>]
    /\ UNCHANGED <<userVars, socialVars, notifications, now>>
    /\ IF auth.status # 0
       THEN res' = Rejected(auth.status) /\ UNCHANGED listings
       ELSE IF gate # 0
       THEN res' = Rejected(gate) /\ UNCHANGED listings
       ELSE IF id \notin DOMAIN listings
       THEN res' = Handled(404, me, <<>>) /\ UNCHANGED listings
       ELSE IF listings[id].status = "draft"
       THEN res' = Handled(400, me, <<>>) /\ UNCHANGED listings
       ELSE IF listings[id].user # me
       THEN res' = Handled(403, me, <<>>) /\ UNCHANGED listings
       ELSE /\ listings' = [listings EXCEPT ![id] = makeFeatured(@, DurationOf(durationInDays))]
            /\ res' = Handled(200, me, <<id>>)

\* POST /api/listings/:id/unfeature: protectRoute, checkRole(['admin']), then
\* the handler.
UnfeatureListing(hdr, id) ==
    LET auth == ProtectRoute(hdr)
        gate == CheckRole({"admin"}, auth.user)
        me == auth.user.id IN
    /\ UNCHANGED moreVars
    /\ req' = [route |-> "POST /api/listings/:id/unfeature", hdr |-> hdr, body |-> <<id>>]
    /\ UNCHANGED <<userVars, socialVars, notifications, now>>
    /\ IF auth.status # 0
       THEN res' = Rejected(auth.status) /\ UNCHANGED listings
       ELSE IF gate # 0
       THEN res' = Rejected(gate) /\ UNCHANGED listings
       ELSE IF id \notin DOMAIN listings
       THEN res' = Handled(404, me, <<>>) /\ UNCHANGED listings
       ELSE IF listings[id].user # me
       THEN res' = Handled(403, me, <<>>) /\ UNCHANGED listings
       ELSE /\ listings' = [listings EXCEPT ![id] = removeFeatured(@)]
            /\ res' = Handled(200, me, <<id>>)

\* A day passes.
Tick ==
    /\ now' = now + 1
    /\ UNCHANGED moreVars
    /\ UNCHANGED <<userVars, socialVars, listings, notifications, req, res>>

\* A deactivation that does not look at the owner.
deactivateUnchecked(hdr, id) ==
    LET auth == ProtectRoute(hdr)
        me == auth.user.id IN
    /\ UNCHANGED moreVars
    /\ req' = [route |-> "DELETE /api/listings/:id", hdr |-> hdr, body |-> <<id>>]
    /\ UNCHANGED <<userVars, socialVars, notifications, now>>
    /\ IF auth.status # 0
       THEN res' = Rejected(auth.status) /\ UNCHANGED listings
       ELSE IF id \notin DOMAIN listings
       THEN res' = Handled(404, me, <<>>) /\ UNCHANGED listings
       ELSE /\ listings' = [listings EXCEPT ![id].status = "inactive"]
            /\ res' = Handled(200, me, <<>>)

\* DELETE /api/listings/:id: protectRoute, then the handler.
DeleteListing(hdr, id) ==
    LET auth == ProtectRoute(hdr)
        me == auth.user.id IN
    /\ UNCHANGED moreVars
    /\ req' = [route |-> "DELETE /api/listings/:id", hdr |-> hdr, body |-> <<id>>]
    /\ UNCHANGED <<userVars, socialVars, notifications, now>>
    /\ IF auth.status # 0
       THEN res' = Rejected(auth.status) /\ UNCHANGED listings
       ELSE IF id \notin DOMAIN listings
       THEN res' = Handled(404, me, <<>>) /\ UNCHANGED listings
       ELSE IF listings[id].user # me
       THEN res' = Handled(403, me, <<>>) /\ UNCHANGED listings
       ELSE /\ listings' = [listings EXCEPT ![id].status = "inactive"]
            /\ res' = Handled(200, me, <<>>)

\* PATCH /api/listings/:id/status: protectRoute, then the handler.
PatchStatus(hdr, id, status) ==
    LET auth == ProtectRoute(hdr)
        me == auth.user.id IN
    /\ UNCHANGED moreVars
    /\ req' = [route |-> "PATCH /api/listings/:id/status", hdr |-> hdr, body |-> <<id, status>>]
    /\ UNCHANGED <<userVars, socialVars, notifications, now>>
    /\ IF auth.status # 0
       THEN res' = Rejected(auth.status) /\ UNCHANGED listings
       ELSE IF status \notin ListingStatuses
       THEN res' = Handled(400, me, <<>>) /\ UNCHANGED listings
       ELSE IF id \notin DOMAIN listings
       THEN res' = Handled(404, me, <<>>) /\ UNCHANGED listings
       ELSE IF listings[id].user # me
       THEN res' = Handled(403, me, <<>>) /\ UNCHANGED listings
       ELSE /\ listings' = [listings EXCEPT ![id].status = status]
            /\ res' = Handled(200, me, <<id>>)

\* GET /api/listings/:id/stats: protectRoute, then the handler.
StatsRoute == "GET /api/listings/:id/stats"
GetStats(hdr, id) ==
    LET auth == ProtectRoute(hdr)
        me == auth.user.id IN
    /\ UNCHANGED moreVars
    /\ req' = [route |-> StatsRoute, hdr |-> hdr, body |-> <<id>>]
    /\ UNCHANGED <<userVars, dataVars>>
    /\ IF auth.status # 0
       THEN res' = Rejected(auth.status)
       ELSE IF id \notin DOMAIN listings
       THEN res' = Handled(404, me, <<>>)
       ELSE IF listings[id].user # me
       THEN res' = Handled(403, me, <<>>)
       ELSE res' = Handled(200, me,
                     <<[favoritesCount |-> Len(listings[id].favorites),
                        status |-> listings[id].status,
                        isFeatured |-> listings[id].isFeatured,
                        featuredUntil |-> listings[id].featuredUntil]>>)

\* -------------------------------------------------------- GET /api/listings
DefaultLimit == 12
MaxLimit == 50
DefaultPage == 1
GetRoute == "GET /api/listings"

Min2(a, b) == IF a < b THEN a ELSE b
Max2(a, b) == IF a > b THEN a ELSE b
\* parseInt(x) || d
OrDefault(x, d) == IF x = Absent \/ x[1] = 0 THEN d ELSE x[1]
\* Math.ceil(a / b)
CeilDiv(a, b) == (a + b - 1) \div b

\* sort({ createdAt: -1 }): the newest first; listings are numbered in the
\* order of their creation.
RECURSIVE NewestFirst(_)
NewestFirst(S) ==
    IF S = {} THEN <<>>
    ELSE LET newest == CHOOSE x \in S : \A y \in S : y <= x IN
         <<newest>> \o NewestFirst(S \ {newest})

\* .skip(n).limit(k) of a sorted result.
SkipLimit(s, n, k) == SubSeq(s, n + 1, Min2(Len(s), n + k))

\* A filter that forgets the status.
MatchesAnyStatus(doc, query) == query.city \in {"", doc.city}

\* The filter the handler assembles: the city when the query names one (the
\* query carries whole city names, so that the regular expression is an
\* equality), and status 'active' in every case.
Matches(doc, query) ==
    /\ query.city \in {"", doc.city}
    /\ doc.status = "active"

\* { isFeatured: true, $or: [{ featuredUntil: { $gt: new Date() } },
\*                           { featuredUntil: null }] }
FeaturedNow(doc) == doc.isFeatured /\ (doc.featuredUntil > now \/ doc.featuredUntil = NoDate)

\* GET /api/listings, sorted by 'newest' (the default).
GetListings(query) ==
    LET page == Max2(1, OrDefault(query.page, DefaultPage))
        limit == Min2(MaxLimit, Max2(1, OrDefault(query.limit, DefaultLimit)))
        skip == (page - 1) * limit
        found == {id \in DOMAIN listings : Matches(listings[id], query)}
        totalPages == CeilDiv(Cardinality(found), limit)
        featuredListings == NewestFirst({id \in found : FeaturedNow(listings[id])})
        remainingSlots == limit - Len(featuredListings)
        regularListings == IF remainingSlots > 0
                           THEN SkipLimit(NewestFirst(found), skip, remainingSlots)
                           ELSE <<>>
        all == featuredListings \o regularListings IN
    /\ UNCHANGED moreVars
    /\ req' = [route |-> GetRoute, hdr |-> NoHeader, body |-> <<query>>]
    /\ res' = IF page > totalPages /\ totalPages > 0
              THEN Handled(400, NoUser, <<>>)
              ELSE Handled(200, NoUser,
                           <<[listings |-> all, itemsPerPage |-> limit,
                              itemsReturned |-> Len(all)]>>)
    /\ UNCHANGED <<userVars, dataVars, notChat>>

\* ------------------------------------------------------------ conversations
\* [req.user._id, receiverId].sort(): the two ids in ascending order.
SortPair(a, b) == IF a <= b THEN <<a, b>> ELSE <<b, a>>

\* Conversation.create({ listing, participants })
NewConversation(listing, participants) ==
    [listing |-> listing, participants |-> participants, deletedFor |-> <<>>, lastMessage |-> 0]

\* The first document a findOne with this condition returns; 0 for null.
FirstConversation(matching) ==
    IF matching # {}
    THEN CHOOSE i \in matching : \A j \in matching : i <= j
    ELSE 0

PostConversationRoute == "POST /api/conversations"
PostMessageRoute == "POST /api/messages"
GetConversationsRoute == "GET /api/conversations"
DeleteConversationRoute == "DELETE /api/conversations/:id"

\* POST /api/conversations: protectRoute, then the handler.  The lookup
\* matches the participants array as a whole, in its order.
PostConversation(hdr, listingId, receiverId) ==
    LET auth == ProtectRoute(hdr)
        me == auth.user.id
        participants == SortPair(me, receiverId)
        found == FirstConversation({i \in DOMAIN conversations :
                    /\ conversations[i].listing = listingId
                    /\ conversations[i].participants = participants}) IN
    /\ req' = [route |-> PostConversationRoute, hdr |-> hdr, body |-> <<listingId, receiverId>>]
    /\ UNCHANGED <<userVars, dataVars, notChat, messages>>
    /\ IF auth.status # 0
       THEN res' = Rejected(auth.status) /\ UNCHANGED conversations
       ELSE IF found # 0
       THEN res' = Handled(200, me, <<found>>) /\ UNCHANGED conversations
       ELSE /\ conversations' = Append(conversations, NewConversation(listingId, participants))
            /\ res' = Handled(200, me, <<Len(conversations')>>)

\* POST /api/messages: protectRoute, then the handler.  The lookup asks for
\* a conversation whose participants hold both ids ($all); the conversation
\* it creates lists the sender first.
PostMessage(hdr, receiverId, listingId) ==
    LET auth == ProtectRoute(hdr)
        me == auth.user.id
        found == FirstConversation({i \in DOMAIN conversations :
                    /\ conversations[i].listing = listingId
                    /\ {me, receiverId} \subseteq Range(conversations[i].participants)})
        id == IF found # 0 THEN found ELSE Len(conversations) + 1
        base == IF found # 0 THEN conversations
                ELSE Append(conversations, NewConversation(listingId, <<me, receiverId>>)) IN
    /\ req' = [route |-> PostMessageRoute, hdr |-> hdr, body |-> <<receiverId, listingId>>]
    /\ UNCHANGED <<userVars, dataVars, notChat>>
    /\ IF auth.status # 0
       THEN res' = Rejected(auth.status) /\ UNCHANGED <<conversations, messages>>
       ELSE IF receiverId = me
       THEN res' = Handled(400, me, <<>>) /\ UNCHANGED <<conversations, messages>>
       ELSE /\ messages' = Append(messages,
                   [conversation |-> id, listing |-> listingId, sender |-> me,
                    receiver |-> receiverId])
            /\ conversations' = [base EXCEPT ![id].lastMessage = Len(messages')]
            /\ res' = Handled(201, me, <<Len(messages')>>)

\* A list query that shows a user every conversation the user is part of.
ParticipantOf(c, userId) == userId \in Range(c.participants)

\* { participants: req.user._id, deletedFor: { $ne: req.user._id } }
VisibleTo(c, userId) ==
    /\ userId \in Range(c.participants)
    /\ userId \notin Range(c.deletedFor)

\* GET /api/conversations: protectRoute, then the handler; the first page.
\* The response lists the ids as a set: the order (by updatedAt) is not
\* carried.
GetConversations(hdr) ==
    LET auth == ProtectRoute(hdr)
        me == auth.user.id
        mine == {i \in DOMAIN conversations : VisibleTo(conversations[i], me)} IN
    /\ req' = [route |-> GetConversationsRoute, hdr |-> hdr, body |-> <<>>]
    /\ res' = IF auth.status # 0 THEN Rejected(auth.status)
              ELSE Handled(200, me, <<mine>>)
    /\ UNCHANGED <<userVars, dataVars, notChat, chatVars>>

\* DELETE /api/conversations/:id: protectRoute, then the handler.
DeleteConversation(hdr, id) ==
    LET auth == ProtectRoute(hdr)
        me == auth.user.id IN
    /\ req' = [route |-> DeleteConversationRoute, hdr |-> hdr, body |-> <<id>>]
    /\ UNCHANGED <<userVars, dataVars, notChat, messages>>
    /\ IF auth.status # 0
       THEN res' = Rejected(auth.status) /\ UNCHANGED conversations
       ELSE IF id \notin DOMAIN conversations
       THEN res' = Handled(404, me, <<>>) /\ UNCHANGED conversations
       ELSE IF me \notin Range(conversations[id].participants)
       THEN res' = Handled(403, me, <<>>) /\ UNCHANGED conversations
       ELSE /\ conversations' =
                   IF me \in Range(conversations[id].deletedFor) THEN conversations
                   ELSE [conversations EXCEPT ![id].deletedFor = Append(@, me)]
            /\ res' = Handled(200, me, <<>>)

\* ------------------------------------------------------------ categories
\* Category.js, categoriesRoutes.js.  Strings are sequences of characters.
Lowers == <<"a", "b", "c", "d", "e", "f", "g", "h", "i", "j", "k", "l", "m",
           "n", "o", "p", "q", "r", "s", "t", "u", "v", "w", "x", "y", "z">>
Uppers == <<"A", "B", "C", "D", "E", "F", "G", "H", "I", "J", "K", "L", "M",
           "N", "O", "P", "Q", "R", "S", "T", "U", "V", "W", "X", "Y", "Z">>
\* String.prototype.toLowerCase, one character
ToLower(c) == IF c \in Range(Uppers) THEN Lowers[IndexOf(Uppers, c)] ELSE c
toLowerCase(s) == [i \in DOMAIN s |-> ToLower(s[i])]
\* [a-z0-9]
SlugChars == Range(Lowers) \cup Range(Digits)

\* trim: true
RECURSIVE TrimStart(_)
TrimStart(s) == IF s # <<>> /\ Head(s) \in WhiteSpace THEN TrimStart(Tail(s)) ELSE s
RECURSIVE TrimEnd(_)
TrimEnd(s) == IF s # <<>> /\ s[Len(s)] \in WhiteSpace
              THEN TrimEnd(SubSeq(s, 1, Len(s) - 1)) ELSE s
Trim(s) == TrimEnd(TrimStart(s))

\* .replace(/[^a-z0-9]+/g, '-'): every run of other characters becomes one dash
RECURSIVE SkipRun(_)
SkipRun(s) == IF s # <<>> /\ Head(s) \notin SlugChars THEN SkipRun(Tail(s)) ELSE s
RECURSIVE DashRuns(_)
DashRuns(s) ==
    IF s = <<>> THEN <<>>
    ELSE IF Head(s) \in SlugChars THEN <<Head(s)>> \o DashRuns(Tail(s))
    ELSE <<"-">> \o DashRuns(SkipRun(s))

\* .replace(/(^-|-$)/g, '')
StripDashes(s) ==
    LET t == IF s # <<>> /\ Head(s) = "-" THEN Tail(s) ELSE s IN
    IF t # <<>> /\ t[Len(t)] = "-" THEN SubSeq(t, 1, Len(t) - 1) ELSE t

\* let baseSlug = this.nameInEnglish.toLowerCase().replace(...).replace(...)
baseSlug(nameInEnglish) == StripDashes(DashRuns(toLowerCase(nameInEnglish)))

\* `${counter}`
RECURSIVE NumberToString(_)
NumberToString(n) ==
    IF n < 10 THEN <<Digit(n)>> ELSE NumberToString(n \div 10) \o <<Digit(n % 10)>>

\* `${baseSlug}-${counter}`
Suffixed(base, counter) == base \o <<"-">> \o NumberToString(counter)

\* parent: null
NoParent == 0

\* A lookup by slug alone, whatever the parent.
SlugExists(slug, parent) ==
    \E i \in DOMAIN categories : categories[i].slug = slug

\* Category.exists({ slug, parent })
CategoryExists(slug, parent) ==
    \E i \in DOMAIN categories :
        categories[i].slug = slug /\ categories[i].parent = parent

\* while (await Category.exists({ slug, parent })) slug = `${baseSlug}-${counter++}`
RECURSIVE slugSearch(_, _, _, _)
slugSearch(base, parent, slug, counter) ==
    IF CategoryExists(slug, parent)
    THEN slugSearch(base, parent, Suffixed(base, counter), counter + 1)
    ELSE slug

\* pre('save'): the slug a new category gets (slug has lowercase: true)
preSaveSlug(nameInEnglish, parent) ==
    toLowerCase(slugSearch(baseSlug(nameInEnglish), parent, baseSlug(nameInEnglish), 1))

\* required: true, trim: true, minlength: 2
MinNameLength == 2
ValidName(name) == Len(Trim(name)) >= MinNameLength

PostCategoryRoute == "POST /api/categories"

\* POST /api/categories: no middleware; new Category(...).save() validates,
\* runs the pre-save hook and inserts under the unique index on
\* { slug, parent }; any error is answered 500.
PostCategory(nameInArabic, nameInEnglish, parent) ==
    LET name == Trim(nameInEnglish)
        slug == preSaveSlug(name, parent) IN
    /\ req' = [route |-> PostCategoryRoute, hdr |-> NoHeader,
               body |-> <<nameInArabic, nameInEnglish, parent>>]
    /\ UNCHANGED <<userVars, dataVars, notCategories>>
    /\ IF ~ValidName(nameInArabic) \/ ~ValidName(nameInEnglish)
       THEN res' = Handled(500, NoUser, <<>>) /\ UNCHANGED categories
       ELSE IF CategoryExists(slug, parent)
       THEN res' = Handled(500, NoUser, <<>>) /\ UNCHANGED categories
       ELSE /\ categories' = Append(categories,
                 [nameInArabic |-> Trim(nameInArabic), nameInEnglish |-> name,
                  slug |-> slug, parent |-> parent])
            /\ res' = Handled(201, NoUser, <<slug>>)

\* ---------------------------------------------- registration and profile
\* validation.js validateRegistration, User.js userSchema, POST
\* /api/auth/register and PUT /api/auth/profile.  A string field that is
\* missing from the body is the empty string; city and avatar are Absent or
\* a one-element tuple.
Letters == Range(Lowers) \cup Range(Uppers)
DigitChars == Range(Digits)
\* \w
WordChars == Letters \cup DigitChars \cup {"_"}
AllIn(s, from, to, S) == \A k \in from..to : s[k] \in S

\* /^[a-zA-Z0-9._-]+@[a-zA-Z0-9.-]+\.[a-zA-Z]{2,}$/
MatchesRegistrationEmail(s) ==
    \E i \in 2..Len(s) : \E j \in (i + 2)..(Len(s) - 2) :
        /\ s[i] = "@"
        /\ s[j] = "."
        /\ AllIn(s, 1, i - 1, Letters \cup DigitChars \cup {".", "_", "-"})
        /\ AllIn(s, i + 1, j - 1, Letters \cup DigitChars \cup {".", "-"})
        /\ AllIn(s, j + 1, Len(s), Letters)

\* [1-9]\d{4,14}$ from position k on
PhoneRest(s, k) ==
    /\ Len(s) >= k
    /\ s[k] \in DigitChars \ {"0"}
    /\ (Len(s) - k) \in 4..14
    /\ AllIn(s, k + 1, Len(s), DigitChars)

\* /^(?:\+|00)[1-9]\d{4,14}$/
MatchesIntlPhone(s) ==
    \/ Len(s) >= 1 /\ s[1] = "+" /\ PhoneRest(s, 2)
    \/ Len(s) >= 2 /\ s[1] = "0" /\ s[2] = "0" /\ PhoneRest(s, 3)

MinPasswordLength == 6
MinNameLengthValidator == 2

\* validateRegistration: TRUE when next() is called, FALSE when it
\* answered 400.
validateRegistration(body) ==
    /\ body.email # <<>> /\ MatchesRegistrationEmail(body.email)
    /\ body.password # <<>> /\ Len(body.password) >= MinPasswordLength
    /\ body.firstName # <<>> /\ Len(body.firstName) >= MinNameLengthValidator
    /\ body.lastName # <<>> /\ Len(body.lastName) >= MinNameLengthValidator
    /\ (body.phone = <<>> \/ MatchesIntlPhone(body.phone))

\* \w+([.-]?\w+)*
WordsMatch(s) ==
    /\ s # <<>>
    /\ AllIn(s, 1, Len(s), WordChars \cup {".", "-"})
    /\ s[1] \in WordChars
    /\ s[Len(s)] \in WordChars
    /\ \A k \in 1..(Len(s) - 1) : s[k] \in WordChars \/ s[k + 1] \in WordChars

\* (\.\w{2,3})+$
RECURSIVE SuffixGroups(_)
SuffixGroups(s) ==
    /\ s # <<>>
    /\ s[1] = "."
    /\ \E n \in {2, 3} :
          /\ Len(s) >= 1 + n
          /\ AllIn(s, 2, 1 + n, WordChars)
          /\ (Len(s) = 1 + n \/ SuffixGroups(SubSeq(s, n + 2, Len(s))))

\* email.match: /^\w+([.-]?\w+)*@\w+([.-]?\w+)*(\.\w{2,3})+$/
MatchesSchemaEmail(s) ==
    \E i \in 2..Len(s) : \E k \in (i + 1)..(Len(s) - 3) :
        /\ s[i] = "@"
        /\ WordsMatch(SubSeq(s, 1, i - 1))
        /\ WordsMatch(SubSeq(s, i + 1, k))
        /\ SuffixGroups(SubSeq(s, k + 1, Len(s)))

\* phone.match: /^\+?[\d\s-]{10,}$/
MatchesSchemaPhone(s) ==
    LET k == IF s # <<>> /\ s[1] = "+" THEN 2 ELSE 1 IN
    /\ Len(s) - k + 1 >= 10
    /\ AllIn(s, k, Len(s), DigitChars \cup WhiteSpace \cup {"-"})

MinNameLengthSchema == 3
MaxNameLength == 30
MaxBioLength == 500
Cities == {"damascus", "aleppo", "homs", "latakia", "hama", "tartus", "deirEzZor",
           "alHasakah", "raqqa", "daraa", "idlib", "alSuwayda", "quneitra"}

\* firstName, lastName: required, trim, minlength 3, maxlength 30
SchemaName(s) == Len(Trim(s)) >= MinNameLengthSchema /\ Len(Trim(s)) <= MaxNameLength
\* email: required, trim, lowercase, match
SchemaEmail(s) == MatchesSchemaEmail(toLowerCase(Trim(s)))
\* password: required, minlength 6
SchemaPassword(s) == Len(s) >= MinPasswordLength
\* phone: required, trim, match
SchemaPhone(s) == MatchesSchemaPhone(Trim(s))
\* city: required, enum
SchemaCity(c) == c # Absent /\ c[1] \in Cities
\* bio: trim, maxlength 500
SchemaBio(s) == Len(Trim(s)) <= MaxBioLength

\* user.validate() on a new document
ValidNewUser(body) ==
    /\ SchemaName(body.firstName)
    /\ SchemaName(body.lastName)
    /\ SchemaEmail(body.email)
    /\ SchemaPassword(body.password)
    /\ SchemaPhone(body.phone)
    /\ SchemaCity(body.city)

\* The e-mail addresses of the User collection (stored trimmed, lowercase).
StoredEmails ==
    {EmailOf(u) : u \in {v \in AllIds : userExists[v]}}
        \cup {registered[i].email : i \in DOMAIN registered}

\* A constructor that takes role from the body as well.
newUserFromBody(body) ==
    [email |-> toLowerCase(Trim(body.email)),
     password |-> BcryptHash(body.password),
     firstName |-> Trim(body.firstName),
     lastName |-> Trim(body.lastName),
     phone |-> Trim(body.phone),
     city |-> body.city,
     role |-> body.role,
     isEmailVerified |-> FALSE]

\* new User({ email, password, firstName, lastName, phone, city, ... }): the
\* fields the handler picks from the body, the schema defaults for the rest.
NewUser(body) ==
    [email |-> toLowerCase(Trim(body.email)),
     password |-> BcryptHash(body.password),
     firstName |-> Trim(body.firstName),
     lastName |-> Trim(body.lastName),
     phone |-> Trim(body.phone),
     city |-> body.city,
     role |-> "user",
     isEmailVerified |-> FALSE]

RegisterRoute == "POST /api/auth/register"
ProfileRoute == "PUT /api/auth/profile"

\* POST /api/auth/register: validateRegistration, then the handler.
\* verificationSent and welcomeSent tell whether the mail transport took
\* the message; a failed welcome mail is caught, a failed verification mail
\* is answered 500 after the user was saved.
Register(body, verificationSent, welcomeSent) ==
    LET email == toLowerCase(Trim(body.email))
        id == MissingUser + Len(registered) + 1 IN
    /\ req' = [route |-> RegisterRoute, hdr |-> NoHeader, body |-> body]
    /\ UNCHANGED <<userVars, dataVars, notAccounts, profile>>
    /\ IF ~validateRegistration(body)
       THEN res' = Rejected(400) /\ UNCHANGED <<registered, outbox>>
       ELSE IF email \in StoredEmails
       THEN res' = Handled(400, NoUser, <<>>) /\ UNCHANGED <<registered, outbox>>
       ELSE IF ~ValidNewUser(body)
       THEN res' = HandledLogging(500, NoUser, <<>>, TRUE) /\ UNCHANGED <<registered, outbox>>
       ELSE /\ registered' = Append(registered, NewUser(body))
            /\ IF ~verificationSent
               THEN res' = HandledLogging(500, NoUser, <<>>, TRUE) /\ UNCHANGED outbox
               ELSE /\ outbox' = outbox
                        \o <<[to |-> body.email, kind |-> "verification"]>>
                        \o (IF welcomeSent THEN <<[to |-> body.email, kind |-> "welcome"]>>
                            ELSE <<>>)
                    /\ res' = HandledLogging(200, NoUser, <<RegisterToken(id)>>, ~welcomeSent)

\* The profile every seeded account starts with.
SeedProfile ==
    [firstName |-> <<"A", "l", "i">>, lastName |-> <<"A", "l", "i">>,
     phone |-> <<"+", "9", "6", "3", "9", "1", "2", "3", "4", "5", "6">>,
     city |-> <<"damascus">>, bio |-> <<>>, profileImage |-> Absent]

\* if (firstName) user.firstName = firstName; ... for the five fields, and
\* the uploaded avatar
SetProfile(doc, body) ==
    [doc EXCEPT
       !.firstName = IF body.firstName # <<>> THEN Trim(body.firstName) ELSE @,
       !.lastName = IF body.lastName # <<>> THEN Trim(body.lastName) ELSE @,
       !.phone = IF body.phone # <<>> THEN Trim(body.phone) ELSE @,
       !.city = IF body.city # Absent THEN body.city ELSE @,
       !.bio = IF body.bio # <<>> THEN Trim(body.bio) ELSE @,
       !.profileImage = IF body.avatar # Absent THEN body.avatar ELSE @]

\* user.validate() on the updated document
ValidProfile(doc) ==
    /\ SchemaName(doc.firstName)
    /\ SchemaName(doc.lastName)
    /\ SchemaPhone(doc.phone)
    /\ SchemaCity(doc.city)
    /\ SchemaBio(doc.bio)

\* PUT /api/auth/profile: protectRoute, then the handler.  uploaded tells
\* whether cloudinary took the avatar.
PutProfile(hdr, body, uploaded) ==
    LET auth == ProtectRoute(hdr)
        me == auth.user.id
        doc == SetProfile(profile[me], body) IN
    /\ req' = [route |-> ProfileRoute, hdr |-> hdr, body |-> body]
    /\ UNCHANGED <<userVars, dataVars, notAccounts, registered, outbox>>
    /\ IF auth.status # 0
       THEN res' = Rejected(auth.status) /\ UNCHANGED profile
       ELSE IF body.avatar # Absent /\ ~uploaded
       THEN res' = HandledLogging(500, me, <<>>, TRUE) /\ UNCHANGED profile
       ELSE IF ~ValidProfile(doc)
       THEN res' = HandledLogging(500, me, <<>>, TRUE) /\ UNCHANGED profile
       ELSE /\ profile' = [profile EXCEPT ![me] = doc]
            /\ res' = Handled(200, me, <<doc>>)

\* ------------------------------------------- follow routes, interleaved
\* The handlers of POST and DELETE /api/follow/:userId, cut at their awaits:
\* the two findById calls, then the saves Promise.all runs side by side, then
\* the response.  user.following.push(...) is saved as a $push that adds one
\* to __v; an array that was assigned (the filter of unfollow) is saved as a
\* $set of the whole array, guarded by the __v the document was read with,
\* and fails with a VersionError when __v has moved on.
Connections == 1..NumConnections
Idle ==
    [pc |-> "idle", kind |-> "", hdr |-> NoHeader, me |-> NoUser, target |-> NoUser,
     following |-> <<>>, followers |-> <<>>, vMe |-> 0, vTarget |-> 0,
     todo |-> {}, failed |-> FALSE]
FollowRoute == "POST /api/follow/:userId"
UnfollowRoute == "DELETE /api/follow/:userId"

\* POST /api/follow/:userId up to Promise.all: protectRoute and the checks.
BeginFollow(p, hdr, userId) ==
    LET auth == ProtectRoute(hdr)
        me == auth.user.id IN
    /\ flight[p].pc = "idle"
    /\ UNCHANGED <<userVars, dataVars, notFlight, docVersion>>
    /\ IF auth.status # 0
       THEN /\ req' = [route |-> FollowRoute, hdr |-> hdr, body |-> <<userId>>]
            /\ res' = Rejected(auth.status)
            /\ UNCHANGED <<flight, started>>
       ELSE IF ~userExists[userId]
       THEN /\ req' = [route |-> FollowRoute, hdr |-> hdr, body |-> <<userId>>]
            /\ res' = Handled(404, me, <<>>)
            /\ UNCHANGED <<flight, started>>
       ELSE IF me = userId \/ userId \in Range(following[me])
       THEN /\ req' = [route |-> FollowRoute, hdr |-> hdr, body |-> <<userId>>]
            /\ res' = Handled(400, me, <<>>)
            /\ UNCHANGED <<flight, started>>
       ELSE /\ flight' = [flight EXCEPT ![p] =
                 [Idle EXCEPT !.pc = "saving", !.kind = "follow", !.hdr = hdr,
                              !.me = me, !.target = userId,
                              !.todo = {"user", "target"}]]
            /\ started' = started + 1
            /\ UNCHANGED <<req, res>>

\* DELETE /api/follow/:userId up to Promise.all: the arrays are filtered in
\* memory, from the documents as they were read.
BeginUnfollow(p, hdr, userId) ==
    LET auth == ProtectRoute(hdr)
        me == auth.user.id IN
    /\ flight[p].pc = "idle"
    /\ UNCHANGED <<userVars, dataVars, notFlight, docVersion>>
    /\ IF auth.status # 0
       THEN /\ req' = [route |-> UnfollowRoute, hdr |-> hdr, body |-> <<userId>>]
            /\ res' = Rejected(auth.status)
            /\ UNCHANGED <<flight, started>>
       ELSE IF ~userExists[userId]
       THEN /\ req' = [route |-> UnfollowRoute, hdr |-> hdr, body |-> <<userId>>]
            /\ res' = Handled(404, me, <<>>)
            /\ UNCHANGED <<flight, started>>
       ELSE IF userId \notin Range(following[me])
       THEN /\ req' = [route |-> UnfollowRoute, hdr |-> hdr, body |-> <<userId>>]
            /\ res' = Handled(400, me, <<>>)
            /\ UNCHANGED <<flight, started>>
       ELSE /\ flight' = [flight EXCEPT ![p] =
                 [Idle EXCEPT !.pc = "saving", !.kind = "unfollow", !.hdr = hdr,
                              !.me = me, !.target = userId,
                              !.following = SelectSeq(following[me], LAMBDA id : id # userId),
                              !.followers = SelectSeq(followers[userId], LAMBDA id : id # me),
                              !.vMe = docVersion[me], !.vTarget = docVersion[userId],
                              !.todo = {"user", "target"}]]
            /\ started' = started + 1
            /\ UNCHANGED <<req, res>>

\* user.save()
SaveUser(p) ==
    LET f == flight[p] IN
    /\ f.pc = "saving"
    /\ "user" \in f.todo
    /\ UNCHANGED <<userVars, notificationSettings, ratingVars, listings, notifications, now,
                   notFlight, followers, started, req, res>>
    /\ IF f.kind = "follow"
       THEN /\ following' = [following EXCEPT ![f.me] = Append(@, f.target)]
            /\ docVersion' = [docVersion EXCEPT ![f.me] = @ + 1]
            /\ flight' = [flight EXCEPT ![p].todo = @ \ {"user"}]
       ELSE IF docVersion[f.me] = f.vMe
       THEN /\ following' = [following EXCEPT ![f.me] = f.following]
            /\ docVersion' = [docVersion EXCEPT ![f.me] = @ + 1]
            /\ flight' = [flight EXCEPT ![p].todo = @ \ {"user"}]
       ELSE /\ flight' = [flight EXCEPT ![p].todo = @ \ {"user"}, ![p].failed = TRUE]
            /\ UNCHANGED <<following, docVersion>>

\* userToFollow.save(), userToUnfollow.save()
SaveTarget(p) ==
    LET f == flight[p] IN
    /\ f.pc = "saving"
    /\ "target" \in f.todo
    /\ UNCHANGED <<userVars, notificationSettings, ratingVars, listings, notifications, now,
                   notFlight, following, started, req, res>>
    /\ IF f.kind = "follow"
       THEN /\ followers' = [followers EXCEPT ![f.target] = Append(@, f.me)]
            /\ docVersion' = [docVersion EXCEPT ![f.target] = @ + 1]
            /\ flight' = [flight EXCEPT ![p].todo = @ \ {"target"}]
       ELSE IF docVersion[f.target] = f.vTarget
       THEN /\ followers' = [followers EXCEPT ![f.target] = f.followers]
            /\ docVersion' = [docVersion EXCEPT ![f.target] = @ + 1]
            /\ flight' = [flight EXCEPT ![p].todo = @ \ {"target"}]
       ELSE /\ flight' = [flight EXCEPT ![p].todo = @ \ {"target"}, ![p].failed = TRUE]
            /\ UNCHANGED <<followers, docVersion>>

\* Promise.all has settled: notification.save() of a follow is done as well,
\* and the response is sent, 500 from the catch when a save was rejected.
Respond(p) ==
    LET f == flight[p] IN
    /\ f.pc = "saving"
    /\ f.todo = {}
    /\ UNCHANGED <<userVars, followVars, notificationSettings, ratingVars, listings, now,
                   notFlight, docVersion, started>>
    /\ flight' = [flight EXCEPT ![p] = Idle]
    /\ req' = [route |-> IF f.kind = "follow" THEN FollowRoute ELSE UnfollowRoute,
               hdr |-> f.hdr, body |-> <<f.target>>]
    /\ notifications' =
          IF f.kind = "follow"
          THEN Append(notifications,
                 [recipient |-> f.target, sender |-> f.me, type |-> "FOLLOW", listing |-> 0])
          ELSE notifications
    /\ res' = IF f.failed THEN HandledLogging(500, f.me, <<>>, TRUE)
              ELSE Handled(200, f.me, <<>>)

\* ------------------------------------------------------------------ Init
\* The database as deployed: the accounts 1..NumUsers exist, the first one
\* seeded with the admin role (no route can create the first admin); the
\* account registered last has not verified its address yet.

InitUsers ==
    /\ userExists = [u \in AllIds |-> u \in UserIds]
    /\ role = [u \in AllIds |-> IF u = 1 THEN "admin" ELSE "user"]
    /\ isEmailVerified = [u \in AllIds |-> u < NumUsers]
    /\ password = [u \in AllIds |-> BcryptHash(PasswordOf(u))]
    /\ sessions = [u \in AllIds |-> <<>>]

\* Nobody follows anybody, every notification setting has its schema default,
\* nobody was rated, and there are no listings and no notifications.
InitData ==
    /\ followers = [u \in AllIds |-> <<>>]
    /\ following = [u \in AllIds |-> <<>>]
    /\ notificationSettings = [u \in AllIds |-> [newListings |-> TRUE, listingUpdates |-> TRUE]]
    /\ ratings = [u \in AllIds |-> <<>>]
    /\ averageRating = [u \in AllIds |-> 0]
    /\ totalRatings = [u \in AllIds |-> 0]
    /\ listings = <<>>
    /\ notifications = <<>>
    /\ now = 0
    /\ conversations = <<>>
    /\ messages = <<>>
    /\ categories = <<>>
    /\ registered = <<>>
    /\ profile = [u \in AllIds |-> SeedProfile]
    /\ outbox = <<>>
    /\ flight = [p \in Connections |-> Idle]
    /\ docVersion = [u \in AllIds |-> 0]
    /\ started = 0

Init ==
    /\ InitUsers
    /\ InitData
    /\ req = NoRequest
    /\ res = NoResponse

\* ------------------------------------------------ requests that are sent
\* Headers a client sends to a protected route: none, an empty or malformed
\* bearer token, a refresh token, a token under another scheme or under none,
\* the token each account got at registration, the token of a removed
\* account, and every token a login handed out.
OddHeaders ==
    {NoHeader, Bearer(EmptyToken), Bearer(MalformedToken), Bearer(RefreshToken(1)),
     [present |-> TRUE, scheme |-> "Basic ", tok |-> RegisterToken(1)],
     [present |-> TRUE, scheme |-> "", tok |-> RegisterToken(1)],
     Bearer(RegisterToken(MissingUser))}
Headers ==
    OddHeaders \cup {Bearer(RegisterToken(u)) : u \in UserIds}
               \cup {Bearer(t) : t \in IssuedTokens}
\* The headers sent to the admin routes.
AdminHeaders == {NoHeader, Bearer(RegisterToken(1))} \cup {Bearer(t) : t \in IssuedTokens}
RoleInputs == {"user", "admin", "owner"}

LoginEmails ==
    {EmailOf(u) : u \in UserIds}
        \cup {<<>>, <<"u", "1", "@", "x">>, <<"u", " ", "@", "x", ".", "s", "y">>,
              <<"n", "o", "@", "x", ".", "s", "y">>}
LoginPasswords == {PasswordOf(u) : u \in UserIds} \cup {<<>>}

\* ------------------------------------------------- Spec: authentication
\* Logins with the right credentials hand out tokens; the protected and the
\* admin routes are called with them and with the odd headers.
Next ==
    \/ \E u \in UserIds :
          TotalSessions < MaxSessions
              /\ Login([email |-> EmailOf(u), password |-> PasswordOf(u)])
    \/ \E h \in Headers : GetMe(h)
    \/ \E h \in AdminHeaders : ListUsers(h)
    \/ \E h \in AdminHeaders, id \in UserIds, r \in RoleInputs : PatchRole(h, id, r)

Spec == Init /\ [][Next]_vars

\* ---------------------------------------------------------- Spec: login
NextLogin ==
    \/ \E e \in LoginEmails, p \in LoginPasswords :
          TotalSessions < MaxSessions /\ Login([email |-> e, password |-> p])
    \/ \E e \in LoginEmails, ok \in BOOLEAN : VerifyEmail(e, ok)

SpecLogin == Init /\ [][NextLogin]_vars

\* ------------------------------------------- SpecNotify: the follower fan-out
\* Account 1 sells; accounts 2 and 3 follow and unfollow it and switch their
\* notification settings; the seller creates and updates listings, and each
\* fan-out may fail.  Recipients delete their oldest notification.
Seller == 1
Audience == {2, 3}
ListingBody(status) ==
    [complete |-> TRUE, status |-> status, priceType |-> "", price |-> <<10>>, city |-> "aleppo"]
UpdateBody(price) ==
    [priceType |-> "", price |-> price, status |-> "", isFeatured |-> Absent]
SettingsInputs ==
    {[newListings |-> a, listingUpdates |-> b] : a, b \in BOOLEAN} \
        {[newListings |-> FALSE, listingUpdates |-> FALSE]}

NextNotify ==
    \/ \E u \in Audience :
          Len(notifications) < MaxNotifications /\ Follow(TokenOf(u), Seller)
    \/ \E u \in Audience : Unfollow(TokenOf(u), Seller)
    \/ \E u \in Audience, s \in SettingsInputs : PutSettings(TokenOf(u), s)
    \/ \E u \in Audience \cup {Seller} : DeleteNotification(TokenOf(u), 1)
    \/ \E h \in {NoHeader, TokenOf(Seller)}, st \in {"", "draft", "sold"} :
          /\ Len(listings) < MaxListings
          /\ Len(notifications) < MaxNotifications
          /\ CreateListing(h, ListingBody(st))
    \/ \E h \in {TokenOf(Seller), TokenOf(2)}, p \in {Absent, <<20>>} :
          /\ Len(notifications) < MaxNotifications
          /\ UpdateListing(h, 1, UpdateBody(p))

SpecNotify == Init /\ [][NextNotify]_vars

\* --------------------------------------------------- SpecRating: ratings
\* Every account rates account 1 (and a removed account), with whole, quarter
\* and half stars, values out of range and a comment that is too long.
RatingInputs == {0, 100, 425, 450, 500, 600}
RateBodies ==
    {[rating |-> r, longComment |-> FALSE] : r \in RatingInputs}
        \cup {[rating |-> 500, longComment |-> TRUE]}

NextRating ==
    \E h \in {NoHeader} \cup {TokenOf(u) : u \in UserIds}, id \in {Seller, MissingUser},
       b \in RateBodies : RateUser(h, id, b)

SpecRating == Init /\ [][NextRating]_vars

\* ------------------------------------------------ SpecFavorites: favorites
\* The seller lists; every account adds the listing to its favorites and
\* takes it out again through the two routes, and the method is called for
\* every account.
NextFavorites ==
    \/ Len(listings) < MaxListings /\ CreateListing(TokenOf(Seller), ListingBody(""))
    \/ \E h \in {NoHeader} \cup {TokenOf(u) : u \in UserIds}, id \in 1..(Len(listings) + 1) :
          AddFavorite(h, id)
    \/ \E u \in UserIds, id \in 1..(Len(listings) + 1) : RemoveFavorite(TokenOf(u), id)
    \/ \E u \in UserIds, id \in DOMAIN listings : ToggleFavorite(id, u)

SpecFavorites == Init /\ [][NextFavorites]_vars

\* ------------------------------------------------- SpecFeature: featuring
\* The admin (account 1) and account 2 list, as active or as draft; both and
\* an anonymous client ask to feature and to unfeature; days pass.
DurationInputs == {Absent, <<0>>, <<1>>}

NextFeature ==
    \/ \E u \in {Seller, 2}, st \in {"", "draft"} :
          Len(listings) < MaxListings /\ CreateListing(TokenOf(u), ListingBody(st))
    \/ \E h \in {NoHeader, TokenOf(Seller), TokenOf(2)}, id \in 1..(Len(listings) + 1),
          d \in DurationInputs : FeatureListing(h, id, d)
    \/ \E h \in {TokenOf(Seller), TokenOf(2)}, id \in 1..(Len(listings) + 1) :
          UnfeatureListing(h, id)
    \/ now < MaxDay /\ Tick

SpecFeature == Init /\ [][NextFeature]_vars

\* ---------------------------------------------------- SpecBrowse: browsing
\* The seller, who is the admin, lists up to MaxStored listings, changes
\* their status, deactivates, features and unfeatures them; anybody browses
\* with and without a city, a page and a limit.
StatusInputs == ListingStatuses \cup {"archived"}
Queries ==
    {[page |-> p, limit |-> l, city |-> c] :
        p \in {Absent, <<2>>}, l \in {Absent, <<1>>, <<100>>}, c \in {"", "aleppo", "homs"}}

NextBrowse ==
    \/ Len(listings) < MaxStored /\ CreateListing(TokenOf(Seller), ListingBody(""))
    \/ \E id \in 1..MaxStored, st \in StatusInputs : PatchStatus(TokenOf(Seller), id, st)
    \/ \E h \in {TokenOf(Seller), TokenOf(2)}, id \in DOMAIN listings : DeleteListing(h, id)
    \/ \E id \in DOMAIN listings : FeatureListing(TokenOf(Seller), id, Absent)
    \/ \E id \in DOMAIN listings : UnfeatureListing(TokenOf(Seller), id)
    \/ \E q \in Queries : GetListings(q)

SpecBrowse == Init /\ [][NextBrowse]_vars

\* ------------------------------------------------ SpecChat: conversations
\* Accounts 1 and 2 open conversations about listing 1 and send messages to
\* each other and to themselves; they, account 3 and an anonymous client
\* delete conversations; every account lists its conversations.
Chatters == {1, 2}
ChatListing == 1

NextChat ==
    \/ \E u \in Chatters, r \in Chatters :
          /\ Len(conversations) < MaxConversations
          /\ PostConversation(TokenOf(u), ChatListing, r)
    \/ \E u \in Chatters, r \in Chatters :
          /\ Len(conversations) < MaxConversations
          /\ Len(messages) < MaxMessages
          /\ PostMessage(TokenOf(u), r, ChatListing)
    \/ \E h \in {NoHeader} \cup {TokenOf(u) : u \in UserIds},
          id \in 1..(Len(conversations) + 1) : DeleteConversation(h, id)
    \/ \E u \in UserIds : GetConversations(TokenOf(u))

SpecChat == Init /\ [][NextChat]_vars

\* ------------------------------------------------- SpecCategory: slugs
\* Main categories and sub-categories of the first category are created,
\* with names that share a base slug, names that equal a suffixed slug, and
\* names that are too short.
ArabicName == <<"c", "c">>
EnglishNames ==
    { <<"A", "b">>, <<"a", "b">>, <<"a", "b", " ", "1">>, <<" ", "a", "!", " ">>,
      <<"!", "!">>, <<"a", " ">> }
ParentInputs == {NoParent, 1}

NextCategory ==
    \E name \in EnglishNames, parent \in ParentInputs :
        /\ Len(categories) < MaxCategories
        /\ PostCategory(ArabicName, name, parent)

SpecCategory == Init /\ [][NextCategory]_vars

\* --------------------------------------------- SpecRegister: registration
\* Bodies with every combination of well-formed, malformed, too short and
\* missing fields are sent to POST /api/auth/register; the mail transport
\* may refuse either message.
LongPhone == <<"+", "9", "6", "3", "9", "1", "2", "3", "4", "5", "6">>
RegisterBodies ==
    [email : { <<"n", "@", "x", ".", "s", "y">>, <<"m", "@", "x", ".", "s", "y">>, EmailOf(1),
               <<"n", "@", "x">>, <<"n", "@", "x", ".", "i", "n", "f", "o">>, <<>> },
     password : { <<"s", "e", "c", "r", "e", "t">>, <<"s", "h", "o", "r", "t">> },
     firstName : { <<"S", "a", "m">>, <<"A", "l">>, <<"A">> },
     lastName : { <<"A", "l", "i">>, <<"B">> },
     phone : { LongPhone, <<>>, <<"+", "9", "6", "3", "9", "1">>,
               <<"0", "9", "1", "2", "3", "4", "5", "6", "7", "8">> },
     city : { <<"damascus">>, Absent },
     role : {"admin"}]

NextRegister ==
    \E body \in RegisterBodies, verificationSent \in BOOLEAN, welcomeSent \in BOOLEAN :
        /\ Len(registered) < MaxRegistered
        /\ Register(body, verificationSent, welcomeSent)

SpecRegister == Init /\ [][NextRegister]_vars

\* ------------------------------------------------------ SpecRole: roles
\* An anonymous client, the admin and account 2 send role changes; clients
\* register and account 2 updates its profile, both with a role in the body.
GoodRegistration ==
    [email |-> <<"n", "@", "x", ".", "s", "y">>, password |-> <<"s", "e", "c", "r", "e", "t">>,
     firstName |-> <<"S", "a", "m">>, lastName |-> <<"A", "l", "i">>,
     phone |-> LongPhone, city |-> <<"damascus">>, role |-> "admin"]
RoleRegisterBodies == {GoodRegistration, [GoodRegistration EXCEPT !.firstName = <<"A">>]}
GoodProfile ==
    [firstName |-> <<"S", "a", "m">>, lastName |-> <<>>, phone |-> <<>>,
     city |-> <<"aleppo">>, bio |-> <<>>, avatar |-> Absent, role |-> "admin"]
ProfileBodies ==
    {GoodProfile, [GoodProfile EXCEPT !.firstName = <<"A">>],
     [GoodProfile EXCEPT !.avatar = <<"image">>]}
RoleHeaders == {NoHeader, TokenOf(1), TokenOf(2)}

NextRole ==
    \/ \E h \in RoleHeaders, id \in UserIds, r \in RoleInputs : PatchRole(h, id, r)
    \/ \E body \in RoleRegisterBodies :
          /\ Len(registered) < MaxRegistered
          /\ Register(body, TRUE, TRUE)
    \/ \E h \in RoleHeaders, body \in ProfileBodies, uploaded \in BOOLEAN :
          PutProfile(h, body, uploaded)

SpecRole == Init /\ [][NextRole]_vars

\* ------------------------------------------- SpecManage: listing management
\* Accounts 1 and 2 list; both and an anonymous client deactivate, update,
\* change the status of and ask for the statistics of listings that exist
\* and of one that does not.
ManageHeaders == {NoHeader, TokenOf(1), TokenOf(2)}
ManageStatuses == {"sold", "archived"}

NextManage ==
    \/ \E u \in {1, 2} :
          Len(listings) < MaxListings /\ CreateListing(TokenOf(u), ListingBody(""))
    \/ \E h \in ManageHeaders, id \in 1..(Len(listings) + 1) : DeleteListing(h, id)
    \/ \E h \in ManageHeaders, id \in 1..(Len(listings) + 1), price \in {Absent, <<20>>} :
          UpdateListing(h, id, UpdateBody(price))
    \/ \E h \in ManageHeaders, id \in 1..(Len(listings) + 1), st \in ManageStatuses :
          PatchStatus(h, id, st)
    \/ \E h \in ManageHeaders, id \in 1..(Len(listings) + 1) : GetStats(h, id)

SpecManage == Init /\ [][NextManage]_vars

\* ------------------------------------- SpecFollow: follows side by side
\* The accounts follow and unfollow one another over NumConnections
\* connections; the saves of requests that are served at the same time land
\* in any order.
NextFollow ==
    \/ \E p \in Connections, u \in UserIds, t \in UserIds :
          started < MaxRequests /\ BeginFollow(p, TokenOf(u), t)
    \/ \E p \in Connections, u \in UserIds, t \in UserIds :
          started < MaxRequests /\ BeginUnfollow(p, TokenOf(u), t)
    \/ \E p \in Connections : SaveUser(p)
    \/ \E p \in Connections : SaveTarget(p)
    \/ \E p \in Connections : Respond(p)

SpecFollow == Init /\ [][NextFollow]_vars

\* =================================================================== claims
ProtectedRoutes == {"GET /api/auth/me", "GET /api/users", "PATCH /api/users/:id/role"}
AdminRoutes == {"GET /api/users", "PATCH /api/users/:id/role"}

\* The header carries a token signed with the JWT secret.
TokenVerifies(h) == h.present /\ h.scheme \in {"Bearer ", ""} /\ h.tok.key = JWT_SECRET

\* C1: on a route guarded by protectRoute the handler runs, with req.user the
\* user the token names, only if the token in the Authorization header
\* verifies under the JWT secret and its user id has a User document; with
\* no token or an invalid one the answer is 401, with a valid token of a
\* user that does not exist 404, and then the handler does not run.
C1_ProtectRoute ==
    req.route \in ProtectedRoutes =>
        LET h == req.hdr IN
        /\ res.ran => TokenVerifies(h) /\ userExists[h.tok.uid] /\ res.user = h.tok.uid
        /\ ~TokenVerifies(h) => res.status = 401 /\ ~res.ran
        /\ TokenVerifies(h) /\ ~userExists[h.tok.uid] => res.status = 404 /\ ~res.ran

C1_Witness ==
    /\ req.route \in ProtectedRoutes
    /\ res.ran
    /\ res.user = req.hdr.tok.uid

\* C2: a handler behind checkRole(['admin']) runs exactly when the role the
\* acting user has in the database at the time of the request is admin, and
\* is answered 403 otherwise, whatever role the token was issued with;
\* checkRole answers 401 when no user was loaded.
C2_CheckRole ==
    [][req'.route \in AdminRoutes =>
          LET h == req'.hdr
              u == h.tok.uid IN
          /\ res'.ran => role[res'.user] = "admin"
          /\ TokenVerifies(h) /\ userExists[u] =>
                /\ res'.ran <=> role[u] = "admin"
                /\ role[u] # "admin" => res'.status = 403
          /\ CheckRole({"admin"}, NoDoc) = 401]_vars

\* A token issued while its user was admin is refused after the demotion.
C2_Witness ==
    /\ req.route \in AdminRoutes
    /\ req.hdr.tok \in IssuedTokens
    /\ req.hdr.tok.role = "admin"
    /\ role[req.hdr.tok.uid] = "user"
    /\ res.status = 403

\* The documents a request appended to the Notification collection.
Inserted == SubSeq(notifications', Len(notifications) + 1, Len(notifications'))
\* How many of them are NEW_LISTING notifications addressed to f.
NewListingCount(f) ==
    Cardinality({i \in DOMAIN Inserted :
                    Inserted[i].type = "NEW_LISTING" /\ Inserted[i].recipient = f})

\* C3: when user S creates a listing with success and the database calls of
\* the fan-out succeed, the notifications inserted are NEW_LISTING
\* notifications sent by S about the new listing, exactly one for each
\* follower of S whose newListings setting is true at that time and none for
\* anybody else.
C3_NewListingFanOut ==
    [][(req'.route = CreateRoute /\ res'.status = 201 /\ ~res'.logged) =>
          LET S == res'.user
              L == Len(listings') IN
          /\ Len(listings') = Len(listings) + 1
          /\ listings'[L].user = S
          /\ SubSeq(notifications', 1, Len(notifications)) = notifications
          /\ \A f \in AllIds :
                NewListingCount(f) =
                    IF f \in Range(followers[S]) /\ notificationSettings[f].newListings
                    THEN 1 ELSE 0
          /\ \A i \in DOMAIN Inserted :
                Inserted[i] = Notify(Inserted[i].recipient, S, "NEW_LISTING", L)]_vars

\* Two followers, one of them with newListings switched off: one notification.
C3_Witness ==
    /\ req.route = CreateRoute
    /\ res.status = 201
    /\ ~res.logged
    /\ \E f, g \in Range(followers[res.user]) :
          /\ notificationSettings[f].newListings
          /\ ~notificationSettings[g].newListings
          /\ notifications = <<Notify(f, res.user, "NEW_LISTING", res.body[1])>>

\* C4: when the fan-out fails while a listing is created or updated, the
\* failure is logged and nothing else: the listing is stored or updated, the
\* response is the 201 or 200 of a fan-out that worked, and the fan-out is
\* not run again (what was inserted before the failure is all there is).
\* No create or update request is answered 500 because of the fan-out.
C4_FanOutFailure ==
    [][/\ (req'.route = CreateRoute /\ res'.logged) =>
             /\ res'.status = 201
             /\ Len(listings') = Len(listings) + 1
             /\ listings'[Len(listings')].user = res'.user
             /\ SubSeq(notifications', 1, Len(notifications)) = notifications
             /\ \E k \in 0..Len(notifyFollowersNewListing(res'.user, Len(listings'))) :
                   Inserted = SubSeq(notifyFollowersNewListing(res'.user, Len(listings')), 1, k)
       /\ (req'.route = UpdateRoute /\ res'.logged) =>
             /\ res'.status = 200
             /\ listings'[req'.body[1]].price = req'.body[2].price[1]
             /\ SubSeq(notifications', 1, Len(notifications)) = notifications
             /\ \E k \in 0..Len(notifyFollowersListingUpdate(res'.user, req'.body[1])) :
                   Inserted = SubSeq(notifyFollowersListingUpdate(res'.user, req'.body[1]), 1, k)
       /\ (req'.route = CreateRoute /\ res'.ran) => res'.status \in {201, 400}
       /\ (req'.route = UpdateRoute /\ res'.ran) => res'.status \in {200, 400, 403, 404}]_vars

\* insertMany failed on the second of two notifications: the listing is
\* there, one notification is there, the answer is 201.
C4_Witness ==
    /\ req.route = CreateRoute
    /\ res.logged
    /\ res.status = 201
    /\ Len(listings) = res.body[1]
    /\ Len(notifyFollowersNewListing(res.user, res.body[1])) = 2
    /\ notifications = SubSeq(notifyFollowersNewListing(res.user, res.body[1]), 1, 1)

\* |x|
Abs(x) == IF x < 0 THEN 0 - x ELSE x

\* C6: after a successful POST /api/users/:id/rate the rated user's
\* totalRatings is the number of entries of ratings, and averageRating is
\* the arithmetic mean of their rating values rounded to one decimal place
\* (a multiple of 0.1 at most 0.05 away from the mean), hence 0 or a value
\* between 1 and 5; the response carries both.
C6_AverageRating ==
    [][(req'.route = RateRoute /\ res'.status = 200) =>
          LET id == req'.body[1]
              n == Len(ratings'[id])
              avg == averageRating'[id] IN
          /\ n > 0
          /\ totalRatings'[id] = n
          /\ avg % 10 = 0
          /\ 2 * Abs(avg * n - SumRatings(ratings'[id])) <= 10 * n
          /\ avg = 0 \/ (100 <= avg /\ avg <= 500)
          /\ res'.body = <<avg, n>>
          /\ \A u \in AllIds :
                ratings'[u] = <<>> => averageRating'[u] = 0 /\ totalRatings'[u] = 0]_vars

\* Two raters gave 4.25 and 4.5: the mean 4.375 is stored as 4.4.
C6_Witness ==
    /\ req.route = RateRoute
    /\ res.status = 200
    /\ Len(ratings[Seller]) = 2
    /\ SumRatings(ratings[Seller]) = 875
    /\ averageRating[Seller] = 440
    /\ totalRatings[Seller] = 2

\* How often x occurs in s.
Count(s, x) == Cardinality({i \in DOMAIN s : s[i] = x})

Caller(h) == IF TokenVerifies(h) /\ userExists[h.tok.uid] THEN h.tok.uid ELSE NoUser

\* The original reading of C8: POST /api/listings/:id/feature issued by any
\* authenticated admin on an existing listing that is no draft features it.
\* (A step that leaves the clock alone is a request; the other steps are the
\* passing of a day.)
C8_AnyAdminFeatures ==
    [][(req'.route = FeatureRoute /\ now' = now) =>
          LET u == Caller(req'.hdr)
              id == req'.body[1] IN
          (u # NoUser /\ role[u] = "admin" /\ id \in DOMAIN listings
                /\ listings[id].status # "draft") =>
              /\ listings'[id].isFeatured
              /\ listings'[id].featuredUntil = now + DurationOf(req'.body[2])]_vars

\* C8 (amended): POST /api/listings/:id/feature requires authentication and
\* the admin role, and the admin must own the listing.  Issued by an admin
\* on an existing listing of its own that is no draft, it sets isFeatured to
\* true and featuredUntil to now + durationInDays days (7 when the body has
\* none or 0) and leaves every other field and listing alone.  Issued by an
\* authenticated non-admin it is answered 403, and so it is when an admin
\* asks for the listing of another user; in every other case as well the
\* listings are unchanged.
C8_Feature ==
    [][(req'.route = FeatureRoute /\ now' = now) =>
          LET u == Caller(req'.hdr)
              id == req'.body[1]
              featured == /\ u # NoUser
                          /\ role[u] = "admin"
                          /\ id \in DOMAIN listings
                          /\ listings[id].status # "draft"
                          /\ listings[id].user = u IN
          /\ featured =>
                /\ res'.status = 200
                /\ listings' = [listings EXCEPT
                      ![id] = [@ EXCEPT !.isFeatured = TRUE,
                                        !.featuredUntil = now + DurationOf(req'.body[2])]]
          /\ ~featured => listings' = listings /\ res'.status # 200
          /\ u = NoUser => ~res'.ran
          /\ (u # NoUser /\ role[u] # "admin") => res'.status = 403 /\ ~res'.ran
          /\ (u # NoUser /\ role[u] = "admin" /\ id \in DOMAIN listings
                /\ listings[id].status # "draft" /\ listings[id].user # u) =>
                res'.status = 403]_vars

\* The admin featured a listing of its own for the default seven days.
C8_Witness ==
    /\ req.route = FeatureRoute
    /\ req.body[2] = Absent
    /\ res.status = 200
    /\ role[res.user] = "admin"
    /\ listings[req.body[1]].user = res.user
    /\ listings[req.body[1]].isFeatured
    /\ listings[req.body[1]].featuredUntil = now + DefaultDuration

\* The page of the last GET /api/listings response.
Page == res.body[1].listings

\* C9: GET /api/listings returns at most limit listings per page, so that
\* itemsReturned never exceeds itemsPerPage, and no listing appears twice in
\* the same page, whatever is stored, featured listings included.
C9_PageSize ==
    (req.route = GetRoute /\ res.status = 200) =>
        /\ Len(Page) <= res.body[1].itemsPerPage
        /\ res.body[1].itemsReturned <= res.body[1].itemsPerPage
        /\ \A i, j \in DOMAIN Page : Page[i] = Page[j] => i = j

\* C10: every listing GET /api/listings returns has status 'active' in the
\* database at the time of the request, whatever the query; so a listing
\* its owner deactivated or set to another status is in no response until
\* its status is active again.
C10_OnlyActive ==
    [][(req'.route = GetRoute /\ res'.status = 200) =>
          \A i \in DOMAIN res'.body[1].listings :
              /\ res'.body[1].listings[i] \in DOMAIN listings
              /\ listings[res'.body[1].listings[i]].status = "active"]_vars

\* A page that shows an active listing while a listing of the same city that
\* is not active stays out.
C10_Witness ==
    /\ req.route = GetRoute
    /\ res.status = 200
    /\ Page # <<>>
    /\ \E id \in DOMAIN listings :
          /\ listings[id].status # "active"
          /\ req.body[1].city \in {"", listings[id].city}
          /\ id \notin Range(Page)

\* The credentials of the request name an existing user, match its stored
\* hash, and that user's address is verified.
LoginAllowed(b) ==
    \E u \in AllIds :
        /\ userExists[u]
        /\ EmailOf(u) = b.email
        /\ password[u] = BcryptHash(b.password)
        /\ isEmailVerified[u]

\* C5: POST /api/auth/login hands out a token and adds a session only if a
\* user with the address exists, the password matches the stored hash and
\* the address is verified; otherwise it answers 400, hands out no token
\* and leaves every user's sessions as they were.
C5_Login ==
    [][req'.route = LoginRoute =>
          /\ (res'.body # <<>> \/ sessions' # sessions) => LoginAllowed(req'.body)
          /\ ~LoginAllowed(req'.body) =>
                res'.status = 400 /\ res'.body = <<>> /\ sessions' = sessions]_vars

C5_Witness ==
    /\ req.route = LoginRoute
    /\ res.status = 200
    /\ \E u \in UserIds :
          /\ EmailOf(u) = req.body.email
          /\ Len(sessions[u]) > 0
          /\ sessions[u][Len(sessions[u])].token = res.body[1]

\* C11: DELETE /api/conversations/:id by a participant u deletes the
\* conversation for u only: u is in deletedFor exactly once afterwards, also
\* when the request is repeated, nobody else's entry in deletedFor changes,
\* and no conversation or message document is removed or changed otherwise;
\* a non-participant gets 403 and a missing conversation 404, with no state
\* change.  GET /api/conversations shows a user exactly the conversations
\* the user takes part in and has not deleted, so the conversation is gone
\* from u's list and still in the other participant's.
C11_DeleteForMe ==
    [][/\ req'.route = DeleteConversationRoute =>
             LET u == Caller(req'.hdr)
                 id == req'.body[1] IN
             /\ messages' = messages
             /\ Len(conversations') = Len(conversations)
             /\ u = NoUser => conversations' = conversations /\ ~res'.ran
             /\ (u # NoUser /\ id \notin DOMAIN conversations) =>
                   res'.status = 404 /\ conversations' = conversations
             /\ (u # NoUser /\ id \in DOMAIN conversations) =>
                   IF u \notin Range(conversations[id].participants)
                   THEN res'.status = 403 /\ conversations' = conversations
                   ELSE /\ res'.status = 200
                        /\ Count(conversations'[id].deletedFor, u) = 1
                        /\ \A v \in AllIds \ {u} :
                              Count(conversations'[id].deletedFor, v)
                                  = Count(conversations[id].deletedFor, v)
                        /\ conversations' = [conversations EXCEPT
                              ![id].deletedFor = conversations'[id].deletedFor]
       /\ (req'.route = GetConversationsRoute /\ res'.status = 200) =>
             res'.body[1] = {i \in DOMAIN conversations :
                               /\ res'.user \in Range(conversations[i].participants)
                               /\ res'.user \notin Range(conversations[i].deletedFor)}]_vars

\* A conversation one participant deleted is listed for the other one.
C11_Witness ==
    /\ req.route = GetConversationsRoute
    /\ res.status = 200
    /\ \E i \in res.body[1] :
          /\ Len(conversations[i].deletedFor) = 1
          /\ conversations[i].deletedFor[1] # res.user
          /\ conversations[i].deletedFor[1] \in Range(conversations[i].participants)

\* C12: at most one conversation exists for a listing and an unordered pair
\* of participants, whichever of POST /api/conversations and POST
\* /api/messages created it and whoever asked.
C12_OneConversation ==
    \A i, j \in DOMAIN conversations :
        (/\ conversations[i].listing = conversations[j].listing
         /\ Range(conversations[i].participants) = Range(conversations[j].participants))
            => i = j

\* C13: no two categories with the same parent have the same slug; a
\* created category gets the base slug of its nameInEnglish when that is
\* free under its parent, and otherwise the base slug with the smallest
\* numeric suffix -k, k >= 1, that is free; the search ends within as many
\* suffixes as there are categories.
C13_UniqueSlug ==
    [][/\ \A i, j \in DOMAIN categories' :
             (/\ categories'[i].parent = categories'[j].parent
              /\ categories'[i].slug = categories'[j].slug) => i = j
       /\ (req'.route = PostCategoryRoute /\ res'.status = 201
             /\ Len(categories') = Len(categories) + 1) =>
             LET new == categories'[Len(categories')]
                 base == baseSlug(new.nameInEnglish)
                 Taken(slug) == \E i \in DOMAIN categories :
                                   /\ categories[i].parent = new.parent
                                   /\ categories[i].slug = slug IN
             /\ new.parent = req'.body[3]
             /\ SubSeq(categories', 1, Len(categories)) = categories
             /\ IF ~Taken(base) THEN new.slug = base
                ELSE \E k \in 1..Len(categories) :
                        /\ new.slug = Suffixed(base, k)
                        /\ \A j \in 1..(k - 1) : Taken(Suffixed(base, j))
                        /\ ~Taken(new.slug)]_vars

\* A category was created with a suffix above 1.
C13_Witness ==
    /\ req.route = PostCategoryRoute
    /\ res.status = 201
    /\ categories # <<>>
    /\ LET new == categories[Len(categories)] IN
       /\ new.slug # baseSlug(new.nameInEnglish)
       /\ new.slug # Suffixed(baseSlug(new.nameInEnglish), 1)

\* C14: a user's role changes only through PATCH /api/users/:id/role sent
\* by a requester whose stored role is admin, only for the user the request
\* names and only to user, admin or moderator; a requester who is no admin
\* gets 403 and an admin who asks for another role 400, the roles unchanged;
\* a registration creates a user with role user whatever the body says and
\* changes no existing role, and a profile update changes no role.
C14_RoleChange ==
    [][LET caller == Caller(req'.hdr)
           isPatch == req'.route = "PATCH /api/users/:id/role" IN
       /\ role' # role =>
             /\ isPatch
             /\ caller # NoUser /\ role[caller] = "admin"
             /\ res'.status = 200
             /\ req'.body[2] \in Roles
             /\ role' = [role EXCEPT ![req'.body[1]] = req'.body[2]]
       /\ (isPatch /\ caller # NoUser /\ role[caller] # "admin") =>
             res'.status = 403 /\ role' = role
       /\ (isPatch /\ caller # NoUser /\ role[caller] = "admin"
             /\ req'.body[2] \notin Roles) =>
             res'.status = 400 /\ role' = role
       /\ \A i \in DOMAIN registered' :
             /\ registered'[i].role = "user"
             /\ i \in DOMAIN registered => registered'[i] = registered[i]
       /\ req'.route \in {RegisterRoute, ProfileRoute} => role' = role]_vars

\* The admin has changed a role, and somebody registered with role admin in
\* the body.
C14_Witness ==
    /\ registered # <<>>
    /\ \E u \in UserIds \ {1} : role[u] # "user"

\* C15: a POST /api/auth/register body that fails validateRegistration is
\* answered 400 without the handler running; no user is created and no
\* e-mail is sent.
C15_RejectedBeforeHandler ==
    [][(req'.route = RegisterRoute /\ ~validateRegistration(req'.body)) =>
          /\ res'.status = 400
          /\ ~res'.ran
          /\ registered' = registered
          /\ outbox' = outbox]_vars

\* C15: every body that passes validateRegistration with an e-mail address
\* no user has results in a created user.
C15_ValidatedIsCreated ==
    [][(/\ req'.route = RegisterRoute
        /\ validateRegistration(req'.body)
        /\ toLowerCase(Trim(req'.body.email)) \notin StoredEmails) =>
          Len(registered') = Len(registered) + 1]_vars

ManageRoutes ==
    {"DELETE /api/listings/:id", UpdateRoute, "PATCH /api/listings/:id/status", StatsRoute}
\* The request is one of the four, from an authenticated user, about a
\* listing that exists and belongs to somebody else.
NotMine ==
    /\ req'.route \in ManageRoutes
    /\ Caller(req'.hdr) # NoUser
    /\ req'.body[1] \in DOMAIN listings
    /\ listings[req'.body[1]].user # Caller(req'.hdr)
\* A successful DELETE sets status to 'inactive' and keeps the document.
DeleteKeeps ==
    (req'.route = "DELETE /api/listings/:id" /\ res'.status = 200) =>
        /\ req'.body[1] \in DOMAIN listings
        /\ listings[req'.body[1]].user = Caller(req'.hdr)
        /\ listings' = [listings EXCEPT ![req'.body[1]].status = "inactive"]

\* The original reading of C16: each of DELETE /api/listings/:id, PUT
\* /api/listings/:id, PATCH /api/listings/:id/status and GET
\* /api/listings/:id/stats sent by an authenticated user who does not own
\* the listing is answered 403 and leaves the listing unchanged.
C16_NotOwner403 ==
    [][/\ NotMine => (res'.status = 403 /\ listings' = listings)
       /\ DeleteKeeps]_vars

\* C16: the four requests sent by an authenticated user who does not own the
\* listing leave the listing unchanged and are answered 403, except a PATCH
\* /api/listings/:id/status whose status is none of active, sold, received,
\* inactive, draft, which is answered 400; a successful DELETE by the owner
\* sets status to 'inactive' and keeps the document.
C16_OwnerOnly ==
    [][/\ NotMine =>
             /\ listings' = listings
             /\ res'.status =
                  IF /\ req'.route = "PATCH /api/listings/:id/status"
                     /\ req'.body[2] \notin ListingStatuses
                  THEN 400 ELSE 403
       /\ DeleteKeeps]_vars

\* Somebody else was refused a status change of a listing its owner had
\* deactivated.
C16_Witness ==
    /\ req.route = "PATCH /api/listings/:id/status"
    /\ res.status = 403
    /\ req.body[1] \in DOMAIN listings
    /\ listings[req.body[1]].status = "inactive"

\* C17: whenever no follow or unfollow request is being served, for all
\* users A and B, B is in A.following if and only if A is in B.followers.
C17_Symmetric ==
    (\A p \in Connections : flight[p].pc = "idle") =>
        \A A, B \in UserIds :
            B \in Range(following[A]) <=> A \in Range(followers[B])

====
